---- MODULE Spec2Model ----
(***************************************************************************)
(* A model of the Stats engine of PerformanceAnalysis (statistics module, *)
(* src/unnamed/part_001).  Every operation of the engine is a function of *)
(* its arguments; an operation is modelled by an operator that computes    *)
(* what the JavaScript computes, and a specification draws the arguments   *)
(* from bounded sets and applies the operation in one step.                *)
(*                                                                         *)
(* Numbers.  A JavaScript number is modelled as a pair <<n, d>>: an exact  *)
(* fraction n/d in lowest terms with d > 0, or one of the three special    *)
(* values NaN = <<0,0>>, +Infinity = <<1,0>>, -Infinity = <<-1,0>>, with   *)
(* the IEEE-754 rules for the special values (0/0 = NaN, x/0 = +-Infinity, *)
(* NaN is contagious and compares false with everything).  The sign of    *)
(* zero is not modelled.  Rounding of finite results is modelled in the   *)
(* order statistics (median, percentile), in a binary floating-point      *)
(* format of FloatBits significant bits; every other operation is exact,  *)
(* except Math.sqrt and Math.log, which are given to one or two decimals. *)
(***************************************************************************)
EXTENDS Integers, Sequences, FiniteSets, TLC

VARIABLES
    pc,              \* "ready": arguments chosen, "done": the call returned
    groups,          \* analyzeMultiVariate: argument groups
    treatmentNames,  \* analyzeMultiVariate: argument treatmentNames
    mvResults,       \* analyzeMultiVariate: returned object
    data,            \* fitAllComplexities: argument data (observations)
    fits,            \* fitAllComplexities: returned array
    xValues,         \* linearRegression: argument xValues
    yValues,         \* linearRegression: argument yValues
    regression,      \* linearRegression: returned object
    beforeData,      \* sample operations: the sample, or the first of two
    afterData,       \* sample operations: the second sample
    percent,         \* percentile: argument p
    op,              \* sample operations: the operation called
    result,          \* sample operations: returned value
    complexity,      \* analyzeComplexity: returned object
    frames,          \* incompleteBeta: the arguments of the active calls, outermost first
    mIndex,          \* incompleteBeta: the index m of the continued-fraction loop
    fProduct,        \* incompleteBeta: the running product f
    front,           \* incompleteBeta: the factor front
    catalog,         \* the Stats object: its property complexityClasses
    calls,           \* the calls of public operations made so far
    earlier,         \* fitAllComplexities: the array the run before the latest returned
    build,           \* the implementation of Array.prototype.sort of the engine that runs the code
    baBefore,        \* the page: number of values parseData finds in the "Before" input
    baAfter,         \* the page: number of values parseData finds in the "After" input
    baShown,         \* the page: baResults.style.display is not 'none'
    mvNames,         \* the page: number of treatment name inputs that are not blank
    mvCards,         \* the page: the group cards, each the number of values in its textarea
    mvShown,         \* the page: mvResults.style.display is not 'none'
    tcRows,          \* the page: number of observations parseTCData finds in the input
    tcShown,         \* the page: tcResults.style.display is not 'none'
    resizeTimeout,   \* the page: the timeout of the resize handler is pending
    lastCall         \* the page: the calls of analyze, analyzeMultiVariate and analyzeComplexity
                     \* of the latest handler that made one

betaVars == <<frames, mIndex, fProduct, front>>

sessionVars == <<catalog, calls, earlier, build>>

pageVars == <<baBefore, baAfter, baShown, mvNames, mvCards, mvShown, tcRows, tcShown,
              resizeTimeout, lastCall>>

statsVars == <<beforeData, afterData, percent, op, result, complexity, betaVars,
               sessionVars, pageVars>>

vars == <<pc, groups, treatmentNames, mvResults, data, fits,
          xValues, yValues, regression, beforeData, afterData, percent, op,
          result, complexity, betaVars, sessionVars, pageVars>>

\* null (results.baseline, effect and percentEffect of an insufficient result)
Null == <<>>

(* Bounds of the model *)

MaxGroups == 3   \* longest group list
MaxData == 2     \* longest data array of a group
MaxObs == 3      \* longest observation list
MaxN == 3        \* observation sizes n are 1..MaxN
MaxTime == 1     \* observation times are 0..MaxTime
MaxPoints == 3   \* longest xValues / yValues of a direct regression call
MaxX == 2        \* x values of a direct regression call are 0..MaxX
MaxY == 2        \* y values of a direct regression call are 0..MaxY
FloatBits == 3   \* significant bits of the floating-point format
MaxSample == 2   \* longest sample of a sample operation
MaxSampleValue == 1  \* sample values are 0..MaxSampleValue
MaxOrderValue == 10  \* floating-point sample values are at most MaxOrderValue
MaxOrderLen == 3  \* longest floating-point sample
MaxEngineGroups == 2  \* longest group list among the calls of every operation
MaxDepth == 3  \* calls of incompleteBeta the call stack has room for, beyond the first
XGrid == 8  \* the arguments x of incompleteBeta are the multiples of 1 / XGrid
MaxCalls == 3  \* calls of a session
MaxValues == 2  \* most values the model counts in an input of samples
MaxRows == 3  \* most observations the model counts in the input of observations
MaxCards == 2  \* most group cards of the page
MaxNames == 2  \* most treatment names of the page
SampleLen == 3   \* observations taken from the sample data

(* JavaScript numbers *)

Abs(i) == IF i < 0 THEN -i ELSE i

Sign(i) == IF i < 0 THEN -1 ELSE IF i > 0 THEN 1 ELSE 0

RECURSIVE Gcd(_, _)
Gcd(a, b) == IF b = 0 THEN a ELSE Gcd(b, a % b)

NaN == <<0, 0>>
PosInf == <<1, 0>>
NegInf == <<-1, 0>>

\* the number n/d for integers n, d with d # 0, in lowest terms
Frac(n, d) ==
    LET g == Gcd(Abs(n), Abs(d))
        s == IF d < 0 THEN -1 ELSE 1
    IN  <<s * (n \div g), s * (d \div g)>>

Num(i) == <<i, 1>>

IsNaN(a) == a = NaN
IsFinite(a) == a[2] # 0
IsInf(a) == a[2] = 0 /\ a[1] # 0

Neg(a) == <<-a[1], a[2]>>

\* a + b
Add(a, b) ==
    IF IsNaN(a) \/ IsNaN(b) THEN NaN
    ELSE IF IsInf(a) /\ IsInf(b) THEN (IF a = b THEN a ELSE NaN)
    ELSE IF IsInf(a) THEN a
    ELSE IF IsInf(b) THEN b
    ELSE LET g == Gcd(a[2], b[2])
             l == (a[2] \div g) * b[2]
         IN  Frac(a[1] * (l \div a[2]) + b[1] * (l \div b[2]), l)

\* a - b
Sub(a, b) == Add(a, Neg(b))

\* a * b
Mul(a, b) ==
    IF IsNaN(a) \/ IsNaN(b) THEN NaN
    ELSE IF IsInf(a) \/ IsInf(b)
         THEN (IF a[1] = 0 \/ b[1] = 0 THEN NaN
               ELSE <<Sign(a[1]) * Sign(b[1]), 0>>)
    ELSE IF a[1] = 0 \/ b[1] = 0 THEN <<0, 1>>
    ELSE LET g1 == Gcd(Abs(a[1]), b[2])
             g2 == Gcd(Abs(b[1]), a[2])
         IN  <<(a[1] \div g1) * (b[1] \div g2), (a[2] \div g2) * (b[2] \div g1)>>

\* a / b
Div(a, b) ==
    IF IsNaN(a) \/ IsNaN(b) THEN NaN
    ELSE IF IsInf(b) THEN (IF IsInf(a) THEN NaN ELSE <<0, 1>>)
    ELSE IF b[1] = 0 THEN (IF a[1] = 0 THEN NaN ELSE <<Sign(a[1]), 0>>)
    ELSE IF IsInf(a) THEN <<Sign(a[1]) * Sign(b[1]), 0>>
    ELSE Mul(a, <<Sign(b[1]) * b[2], Abs(b[1])>>)

\* n1/d1 < n2/d2 for n1, n2 >= 0 and d1, d2 > 0, by the integer parts and
\* then the remainders (no product is formed)
RECURSIVE LtFractions(_, _, _, _)
LtFractions(n1, d1, n2, d2) ==
    IF n1 \div d1 # n2 \div d2 THEN n1 \div d1 < n2 \div d2
    ELSE IF n2 % d2 = 0 THEN FALSE
    ELSE IF n1 % d1 = 0 THEN TRUE
    ELSE LtFractions(d2, n2 % d2, d1, n1 % d1)

\* a < b
Lt(a, b) ==
    /\ ~IsNaN(a)
    /\ ~IsNaN(b)
    /\ IF IsInf(a) /\ IsInf(b) THEN a[1] < b[1]
       ELSE IF IsInf(a) THEN a[1] < 0
       ELSE IF IsInf(b) THEN b[1] > 0
       ELSE IF a[1] < 0 /\ b[1] >= 0 THEN TRUE
       ELSE IF a[1] >= 0 /\ b[1] < 0 THEN FALSE
       ELSE IF a[1] < 0 THEN LtFractions(-b[1], b[2], -a[1], a[2])
       ELSE LtFractions(a[1], a[2], b[1], b[2])

\* a === b
Eq(a, b) == ~IsNaN(a) /\ ~IsNaN(b) /\ a = b

\* a <= b, a >= b
Le(a, b) == Lt(a, b) \/ Eq(a, b)
Ge(a, b) == Le(b, a)

\* Math.max(a, b)
MathMax(a, b) ==
    IF IsNaN(a) \/ IsNaN(b) THEN NaN ELSE IF Lt(a, b) THEN b ELSE a

\* Math.min(a, b)
MathMin(a, b) ==
    IF IsNaN(a) \/ IsNaN(b) THEN NaN ELSE IF Lt(b, a) THEN b ELSE a

\* Math.abs(a)
MathAbs(a) == <<Abs(a[1]), a[2]>>

\* Math.floor(a) and Math.ceil(a) of a finite number, as integers
Floor(a) == a[1] \div a[2]
Ceil(a) == -((-a[1]) \div a[2])

\* the largest integer whose square is at most v
Isqrt(v) == CHOOSE k \in 0..v : k * k <= v /\ (k + 1) * (k + 1) > v

IsSquare(v) == Isqrt(v) * Isqrt(v) = v

\* Math.sqrt(a): exact for the square of a fraction, otherwise cut to one
\* decimal and never 0 for a positive a; NaN below 0
MathSqrt(a) ==
    IF IsNaN(a) \/ a[1] < 0 THEN NaN
    ELSE IF IsInf(a) THEN PosInf
    ELSE IF IsSquare(a[1]) /\ IsSquare(a[2]) THEN Frac(Isqrt(a[1]), Isqrt(a[2]))
    ELSE LET r == Isqrt((a[1] * 100) \div a[2])
         IN  Frac(IF r = 0 THEN 1 ELSE r, 10)

\* 2^e for an integer e
Pow2(e) == IF e >= 0 THEN <<2 ^ e, 1>> ELSE <<1, 2 ^ (-e)>>

\* the exponent e with 2^(FloatBits-1) <= a / 2^e < 2^FloatBits, for a > 0
RECURSIVE ExponentFrom(_, _)
ExponentFrom(a, e) ==
    IF Lt(a, Pow2(e + FloatBits - 1)) THEN ExponentFrom(a, e - 1)
    ELSE IF Ge(a, Pow2(e + FloatBits)) THEN ExponentFrom(a, e + 1)
    ELSE e

\* a >= 0 rounded to the nearest integer, ties to even
RoundHalfEven(a) ==
    LET f == Floor(a)
        r == Sub(a, Num(f))
    IN  IF Lt(Frac(1, 2), r) \/ (r = Frac(1, 2) /\ f % 2 = 1) THEN f + 1 ELSE f

\* the floating-point number nearest to a (round to nearest, ties to even;
\* the exponent range is unbounded)
Fl(a) ==
    IF ~IsFinite(a) \/ a[1] = 0 THEN a
    ELSE LET e == ExponentFrom(MathAbs(a), 0)
             m == RoundHalfEven(Div(MathAbs(a), Pow2(e)))
         IN  Mul(Num(Sign(a[1]) * m), Pow2(e))

\* arr.reduce((sum, val) => sum + val, 0)
RECURSIVE SumFrom(_, _)
SumFrom(arr, i) ==
    IF i > Len(arr) THEN Num(0) ELSE Add(arr[i], SumFrom(arr, i + 1))

Sum(arr) == SumFrom(arr, 1)

\* an array of integers as an array of numbers
NumSeq(s) == [i \in DOMAIN s |-> Num(s[i])]

\* the concatenation of the arrays of an array of arrays
RECURSIVE Flatten(_)
Flatten(ss) == IF ss = <<>> THEN <<>> ELSE Head(ss) \o Flatten(Tail(ss))

\* all sequences over S of length lo..hi
SeqsOf(S, lo, hi) == UNION {[1..n -> S] : n \in lo..hi}


(* Complexity classes *)

\* the keys of complexityClasses in the order of the object literal
Catalog == <<"O(1)", "O(log n)", "O(n)", "O(n log n)", "O(n^2)", "O(n^3)", "O(2^n)">>

\* label and color of the catalog entries
complexityClasses ==
    [c \in {Catalog[i] : i \in DOMAIN Catalog} |->
        CASE c = "O(1)" -> [name |-> c, label |-> "Constant", color |-> "#10b981"]
          [] c = "O(log n)" -> [name |-> c, label |-> "Logarithmic", color |-> "#3b82f6"]
          [] c = "O(n)" -> [name |-> c, label |-> "Linear", color |-> "#8b5cf6"]
          [] c = "O(n log n)" -> [name |-> c, label |-> "Linearithmic", color |-> "#f59e0b"]
          [] c = "O(n^2)" -> [name |-> c, label |-> "Quadratic", color |-> "#ef4444"]
          [] c = "O(n^3)" -> [name |-> c, label |-> "Cubic", color |-> "#ec4899"]
          [] c = "O(2^n)" -> [name |-> c, label |-> "Exponential", color |-> "#6366f1"]]

\* implementations of Array.prototype.sort for short arrays: an insertion
\* sort that looks for the place of an element from the left end of the
\* sorted part, and one that looks for it by binary search
Builds == {"linear", "binary"}

\* no call was made yet: the Stats object is as its literal defines it
NoSession ==
    /\ catalog = complexityClasses
    /\ calls = 0
    /\ earlier = <<>>
    /\ build = "linear"

\* the page is not open
NoPage ==
    /\ baBefore = 0
    /\ baAfter = 0
    /\ baShown = FALSE
    /\ mvNames = 0
    /\ mvCards = <<>>
    /\ mvShown = FALSE
    /\ tcRows = 0
    /\ tcShown = FALSE
    /\ resizeTimeout = FALSE
    /\ lastCall = <<>>

\* no call of incompleteBeta is active
NoBetaCall ==
    /\ frames = <<>>
    /\ mIndex = 0
    /\ fProduct = <<1, 1>>
    /\ front = Null

\* no sample operation and no analyzeComplexity was called, on no sample
NoStatsCall ==
    /\ beforeData = <<>>
    /\ afterData = <<>>
    /\ percent = 0
    /\ op = ""
    /\ result = Null
    /\ complexity = Null
    /\ NoBetaCall
    /\ NoSession
    /\ NoPage

\* the value of the variable regression before a call
NoRegression == [slope |-> Num(0), intercept |-> Num(0), rSquared |-> Num(0)]

(* Aggregator *)

\* mean: 0 for the empty array
mean(arr) == IF Len(arr) = 0 THEN Num(0) ELSE Div(Sum(arr), Num(Len(arr)))

\* variance with Bessel's correction: 0 for fewer than 2 values
variance(arr) ==
    IF Len(arr) < 2 THEN Num(0)
    ELSE LET m == mean(arr)
         IN  Div(Sum([i \in DOMAIN arr |-> Mul(Sub(arr[i], m), Sub(arr[i], m))]),
                 Num(Len(arr) - 1))

stdDev(arr) == MathSqrt(variance(arr))

standardError(arr) == Div(stdDev(arr), MathSqrt(Num(Len(arr))))

\* x inserted into the ascending array arr behind the elements equal to it
RECURSIVE insertAscending(_, _)
insertAscending(arr, x) ==
    IF arr = <<>> THEN <<x>>
    ELSE IF Le(Head(arr), x) THEN <<Head(arr)>> \o insertAscending(Tail(arr), x)
    ELSE <<x>> \o arr

\* arr sorted with (a, b) => a - b, for finite numbers
RECURSIVE sortAscending(_)
sortAscending(arr) ==
    IF arr = <<>> THEN <<>>
    ELSE insertAscending(sortAscending(SubSeq(arr, 1, Len(arr) - 1)), arr[Len(arr)])

\* arr.sort(...) on arr itself: the caller's array is sorted too
sortInPlace(arr) == [sorted |-> sortAscending(arr), original |-> sortAscending(arr)]

\* [...arr].sort(...): the sorted copy, and the caller's array after it
sortCopy(arr) == [sorted |-> sortAscending(arr), original |-> arr]

\* median: 0 for the empty array
median(arr) ==
    IF Len(arr) = 0 THEN Num(0)
    ELSE LET sorted == sortCopy(arr).sorted
             mid == Len(sorted) \div 2
         IN  IF Len(sorted) % 2 # 0 THEN sorted[mid + 1]
             ELSE Fl(Div(Fl(Add(sorted[mid], sorted[mid + 1])), Num(2)))

\* a percentile without interpolation: the lower neighbour
percentileLower(arr, p) ==
    IF Len(arr) = 0 THEN Num(0)
    ELSE LET sorted == sortCopy(arr).sorted
             index == Fl(Mul(Fl(Div(Num(p), Num(100))), Num(Len(sorted) - 1)))
         IN  sorted[Floor(index) + 1]

\* percentile: 0 for the empty array
percentile(arr, p) ==
    IF Len(arr) = 0 THEN Num(0)
    ELSE LET sorted == sortCopy(arr).sorted
             index == Fl(Mul(Fl(Div(Num(p), Num(100))), Num(Len(sorted) - 1)))
             lower == Floor(index)
             upper == Ceil(index)
         IN  IF lower = upper THEN sorted[lower + 1]
             ELSE Fl(Add(sorted[lower + 1],
                         Fl(Mul(Fl(Sub(index, Num(lower))),
                                Fl(Sub(sorted[upper + 1], sorted[lower + 1]))))))

quartiles(arr) ==
    [q1 |-> percentile(arr, 25), q2 |-> median(arr), q3 |-> percentile(arr, 75)]

\* Math.min(...arr), Math.max(...arr) for a non-empty array
RECURSIVE minOf(_)
minOf(arr) == IF Len(arr) = 1 THEN arr[1] ELSE MathMin(arr[1], minOf(Tail(arr)))

RECURSIVE maxOf(_)
maxOf(arr) == IF Len(arr) = 1 THEN arr[1] ELSE MathMax(arr[1], maxOf(Tail(arr)))

\* minMax: {0, 0} for the empty array
minMax(arr) ==
    IF Len(arr) = 0 THEN [min |-> Num(0), max |-> Num(0)]
    ELSE [min |-> minOf(arr), max |-> maxOf(arr)]

\* the caller's array after median(arr), percentile(arr, p), quartiles(arr)
arrayAfterMedian(arr) == IF Len(arr) = 0 THEN arr ELSE sortCopy(arr).original
arrayAfterPercentile(arr) == IF Len(arr) = 0 THEN arr ELSE sortCopy(arr).original
arrayAfterQuartiles(arr) ==
    arrayAfterPercentile(arrayAfterMedian(arrayAfterPercentile(arr)))

\* the object describeSample returns, q and mm being its two locals
summary(arr, q, mm) ==
    [n |-> Len(arr),
     mean |-> mean(arr),
     median |-> q.q2,
     stdDev |-> stdDev(arr),
     standardError |-> standardError(arr),
     variance |-> variance(arr),
     min |-> mm.min,
     max |-> mm.max,
     range |-> Sub(mm.max, mm.min),
     q1 |-> q.q1,
     q3 |-> q.q3,
     iqr |-> Sub(q.q3, q.q1)]

describeSample(arr) == summary(arr, quartiles(arr), minMax(arr))

\* percentageChange: 0 when before === 0
percentageChange(before, after) ==
    IF Eq(before, Num(0)) THEN Num(0)
    ELSE Mul(Div(Sub(after, before), before), Num(100))

(* HypothesisTester *)

\* cohensD: 0 when the pooled standard deviation is 0
cohensD(arr1, arr2) ==
    LET mean1 == mean(arr1)
        mean2 == mean(arr2)
        n1 == Len(arr1)
        n2 == Len(arr2)
        var1 == variance(arr1)
        var2 == variance(arr2)
        pooledVar == Div(Add(Mul(Num(n1 - 1), var1), Mul(Num(n2 - 1), var2)),
                         Num(n1 + n2 - 2))
        pooledStd == MathSqrt(pooledVar)
    IN  IF Eq(pooledStd, Num(0)) THEN Num(0)
        ELSE Div(Sub(mean1, mean2), pooledStd)

interpretCohensD(d) ==
    LET absD == MathAbs(d)
    IN  IF Lt(absD, Frac(2, 10)) THEN "negligible"
        ELSE IF Lt(absD, Frac(5, 10)) THEN "small"
        ELSE IF Lt(absD, Frac(8, 10)) THEN "medium"
        ELSE "large"

\* the values front * (f - 1) that the continued fraction of incompleteBeta
\* is taken to return for a > 0, b > 0 and 0 < x < 1: the model does not
\* evaluate lnGamma, exp, log and the 201 iterations, a call returns any one
\* of these values
ContinuedFractionValues ==
    {Frac(1, 2000), Frac(1, 200), Frac(1, 50), Frac(1, 20), Frac(7, 100), Frac(1, 2)}

\* the continued fraction part of incompleteBeta: NaN when an argument is
\* NaN or Math.log(x) or Math.log(1 - x) is, else the value cf
continuedFraction(a, b, x, cf) ==
    IF IsNaN(a) \/ IsNaN(b) \/ IsNaN(x) THEN NaN
    ELSE IF Lt(x, Num(0)) \/ Lt(Num(1), x) THEN NaN
    ELSE cf

\* incompleteBeta(a, b, x); cf is the value of its continued fraction
RECURSIVE incompleteBeta(_, _, _, _)
incompleteBeta(a, b, x, cf) ==
    IF Eq(x, Num(0)) THEN Num(0)
    ELSE IF Eq(x, Num(1)) THEN Num(1)
    ELSE IF Lt(Div(Add(a, Num(1)), Add(Add(a, b), Num(2))), x)
         THEN Sub(Num(1), incompleteBeta(b, a, Sub(Num(1), x), cf))
    ELSE continuedFraction(a, b, x, cf)

\* tDistributionPValue with x = t^2 / (df + t^2)
tDistributionPValueComplement(t, df, cf) ==
    LET x == Div(Mul(t, t), Add(df, Mul(t, t)))
    IN  Mul(Frac(1, 2), incompleteBeta(Div(df, Num(2)), Frac(1, 2), x, cf))

tDistributionPValue(t, df, cf) ==
    LET x == Div(df, Add(df, Mul(t, t)))
    IN  Mul(Frac(1, 2), incompleteBeta(Div(df, Num(2)), Frac(1, 2), x, cf))

\* welchTTest without the return for se === 0
welchTTestNoShortCircuit(arr1, arr2, cf) ==
    LET n1 == Len(arr1)
        n2 == Len(arr2)
        v1 == Div(variance(arr1), Num(n1))
        v2 == Div(variance(arr2), Num(n2))
        se == MathSqrt(Add(v1, v2))
        t == Div(Sub(mean(arr1), mean(arr2)), se)
        num == Mul(Add(v1, v2), Add(v1, v2))
        denom == Add(Div(Mul(v1, v1), Num(n1 - 1)), Div(Mul(v2, v2), Num(n2 - 1)))
        df == Div(num, denom)
        pValue == Mul(tDistributionPValue(MathAbs(t), df, cf), Num(2))
    IN  [t |-> t, df |-> df, pValue |-> MathMin(pValue, Num(1))]

\* welchTTest(arr1, arr2); cf is the value of the continued fraction
welchTTest(arr1, arr2, cf) ==
    LET n1 == Len(arr1)
        n2 == Len(arr2)
        mean1 == mean(arr1)
        mean2 == mean(arr2)
        var1 == variance(arr1)
        var2 == variance(arr2)
        se == MathSqrt(Add(Div(var1, Num(n1)), Div(var2, Num(n2))))
        t == Div(Sub(mean1, mean2), se)
        num == Mul(Add(Div(var1, Num(n1)), Div(var2, Num(n2))),
                   Add(Div(var1, Num(n1)), Div(var2, Num(n2))))
        denom == Add(Div(Mul(Div(var1, Num(n1)), Div(var1, Num(n1))), Num(n1 - 1)),
                     Div(Mul(Div(var2, Num(n2)), Div(var2, Num(n2))), Num(n2 - 1)))
        df == Div(num, denom)
        pValue == Mul(tDistributionPValue(MathAbs(t), df, cf), Num(2))
    IN  IF Eq(se, Num(0)) THEN [t |-> Num(0), df |-> Num(n1 + n2 - 2), pValue |-> Num(1)]
        ELSE [t |-> t, df |-> df, pValue |-> MathMin(pValue, Num(1))]

interpretPValue(pValue) ==
    IF Lt(pValue, Frac(1, 1000))
    THEN [level |-> "Very High", confidence |-> Frac(999, 10),
          description |-> "Extremely strong evidence"]
    ELSE IF Lt(pValue, Frac(1, 100))
    THEN [level |-> "High", confidence |-> Num(99), description |-> "Strong evidence"]
    ELSE IF Lt(pValue, Frac(5, 100))
    THEN [level |-> "Moderate", confidence |-> Num(95), description |-> "Moderate evidence"]
    ELSE IF Lt(pValue, Frac(1, 10))
    THEN [level |-> "Low", confidence |-> Num(90), description |-> "Weak evidence"]
    ELSE [level |-> "Insufficient", confidence |-> Num(0),
          description |-> "No significant evidence"]

\* a verdict that does not look at the significance
verdictByMeansOnly(isSignificant, afterMean, beforeMean) ==
    IF Lt(afterMean, beforeMean) THEN "faster" ELSE "slower"

\* a verdict 'slower' whenever mean(after) is not below mean(before)
verdictSlowerUntested(isSignificant, afterMean, beforeMean) ==
    IF Lt(afterMean, beforeMean) THEN (IF isSignificant THEN "faster" ELSE "inconclusive")
    ELSE "slower"

\* the verdict of analyze
verdict(isSignificant, afterMean, beforeMean) ==
    IF isSignificant THEN (IF Lt(afterMean, beforeMean) THEN "faster" ELSE "slower")
    ELSE "inconclusive"

\* the object analyze returns, its parameters being the locals of analyze
analysis(beforeStats, afterStats, tTest, d, isSignificant) ==
    [before |-> beforeStats,
     after |-> afterStats,
     tTest |-> tTest,
     cohensD |-> d,
     percentChange |-> percentageChange(beforeStats.mean, afterStats.mean),
     pInterpretation |-> interpretPValue(tTest.pValue),
     effectInterpretation |-> interpretCohensD(d),
     isFaster |-> Lt(afterStats.mean, beforeStats.mean),
     isSignificant |-> isSignificant,
     verdict |-> verdict(isSignificant, afterStats.mean, beforeStats.mean)]

\* const isSignificant = tTest.pValue < 0.05
isSignificantOf(tTest) == Lt(tTest.pValue, Frac(5, 100))

\* the locals of analyze, in the order of their declarations
withTest(beforeStats, afterStats, tTest, d) ==
    analysis(beforeStats, afterStats, tTest, d, isSignificantOf(tTest))

\* analyze(before, after); cf is the value of the continued fraction
analyze(b, a, cf) ==
    withTest(describeSample(b), describeSample(a), welchTTest(b, a, cf), cohensD(b, a))

\* the caller's array after describeSample(arr)
arrayAfterDescribe(arr) == arrayAfterQuartiles(arr)

(* analyzeMultiVariate *)

\* the universe of treatment keys of a group's treatments mapping
Keys == {"A", "B"}

\* the part of describeSample(group.data) that analyzeMultiVariate reads
describeGroup(arr) == [n |-> Len(arr), mean |-> mean(NumSeq(arr))]

\* the groupInfo object pushed to results.groups and groupStats
groupInfo(group, names) ==
    [name |-> group.name,
     treatments |-> group.treatments,
     stats |-> describeGroup(group.data),
     treatmentSignature |->
         [k \in DOMAIN names |-> IF group.treatments[names[k]] THEN "1" ELSE "0"]]

\* Object.values(group.treatments).filter(v => v).length
treatmentCount(group) ==
    Cardinality({k \in DOMAIN group.treatments : group.treatments[k]})

\* (a bug) <= for <: the last group with the fewest treatments wins
baselineMovesOnTie(count, minTreatments) == Le(Num(count), minTreatments)

\* the comparison that moves the baseline to group idx
baselineMoves(count, minTreatments) == Lt(Num(count), minTreatments)

\* the baseline loop from group idx on; the index of the baseline group
\* (0 stands for baselineGroup === null)
RECURSIVE baselineFrom(_, _, _, _)
baselineFrom(gs, idx, minTreatments, baselineGroup) ==
    IF idx > Len(gs) THEN baselineGroup
    ELSE IF baselineMoves(treatmentCount(gs[idx]), minTreatments)
         THEN baselineFrom(gs, idx + 1, Num(treatmentCount(gs[idx])), idx)
         ELSE baselineFrom(gs, idx + 1, minTreatments, baselineGroup)

baselineIndex(gs) == baselineFrom(gs, 1, PosInf, 0)

\* (a bug) the other treatments are not compared
otherTreatmentsIgnored(g1, g2, treatmentName, names) == TRUE

\* the inner loop over treatmentNames: every other treatment agrees
otherTreatmentsSame(g1, g2, treatmentName, names) ==
    \A k \in DOMAIN names :
        names[k] # treatmentName
            => g1.treatments[names[k]] = g2.treatments[names[k]]

\* groups i (without) and j (with) form a valid pair for treatmentName
validPair(gs, i, j, treatmentName, names) ==
    /\ i # j
    /\ ~gs[i].treatments[treatmentName]
    /\ gs[j].treatments[treatmentName]
    /\ otherTreatmentsSame(gs[i], gs[j], treatmentName, names)

\* the index pairs <<i, j>> in the order the two nested loops visit them
loopOrder(n) ==
    [k \in 1..(n * n) |-> <<((k - 1) \div n) + 1, ((k - 1) % n) + 1>>]

\* one entry of pairwiseEffects
pairEntry(gs, names, i, j) ==
    LET g1 == groupInfo(gs[i], names)
        g2 == groupInfo(gs[j], names)
    IN  [withoutGroup |-> g1.name,
         withGroup |-> g2.name,
         effect |-> Sub(g2.stats.mean, g1.stats.mean),
         percentEffect |-> percentageChange(g1.stats.mean, g2.stats.mean),
         withoutMean |-> g1.stats.mean,
         withMean |-> g2.stats.mean,
         withoutData |-> gs[i].data,
         withData |-> gs[j].data]

\* pairwiseEffects after the two nested loops
pairwiseEffects(gs, names, treatmentName) ==
    LET test(p) == validPair(gs, p[1], p[2], treatmentName, names)
        hits == SelectSeq(loopOrder(Len(gs)), test)
    IN  [k \in DOMAIN hits |-> pairEntry(gs, names, hits[k][1], hits[k][2])]

\* (a bug) the data of every without-group once, however many pairs it is in
allWithoutDataOnce(pairs) ==
    Flatten([k \in DOMAIN pairs |->
                IF \E j \in 1..(k - 1) : pairs[j].withoutGroup = pairs[k].withoutGroup
                THEN <<>> ELSE pairs[k].withoutData])

\* allWithData, allWithoutData: the pairs' data arrays, one after another
allWithData(pairs) == Flatten([k \in DOMAIN pairs |-> pairs[k].withData])
allWithoutData(pairs) == Flatten([k \in DOMAIN pairs |-> pairs[k].withoutData])

\* (a bug) the difference of the pooled means, which weights a pair by its size
avgEffectPooled(pairs) ==
    Sub(mean(NumSeq(allWithData(pairs))), mean(NumSeq(allWithoutData(pairs))))

\* avgEffect: the mean of the pairs' effects
avgEffect(pairs) == mean([k \in DOMAIN pairs |-> pairs[k].effect])

\* avgPercentEffect: the mean of the pairs' percent effects
avgPercentEffect(pairs) == mean([k \in DOMAIN pairs |-> pairs[k].percentEffect])

\* the result pushed when pairwiseEffects is not empty; it has no
\* confounded and no insufficient property.  (pValue, isSignificant and
\* interpretation, which come from welchTTest, are added by testedResult.)
pairwiseResult(treatmentName, pairs) ==
    [name |-> treatmentName,
     effect |-> avgEffect(pairs),
     percentEffect |-> avgPercentEffect(pairs),
     withMean |-> mean(NumSeq(allWithData(pairs))),
     withoutMean |-> mean(NumSeq(allWithoutData(pairs))),
     withN |-> Len(allWithData(pairs)),
     withoutN |-> Len(allWithoutData(pairs)),
     pairCount |-> Len(pairs),
     method |-> "pairwise"]

\* withTreatment / withoutTreatment: the data of all groups that have
\* (present = TRUE) or lack (present = FALSE) the treatment
marginalData(gs, treatmentName, present) ==
    LET has(g) == g.treatments[treatmentName] = present
        sel == SelectSeq(gs, has)
    IN  Flatten([k \in DOMAIN sel |-> sel[k].data])

\* (a bug) non-empty partitions are accepted
marginalEnoughNonEmpty(withTreatment, withoutTreatment) ==
    Len(withTreatment) >= 1 /\ Len(withoutTreatment) >= 1

\* (a bug) two data values on either side are accepted
marginalEnoughTogether(withTreatment, withoutTreatment) ==
    Len(withTreatment) + Len(withoutTreatment) >= 2

\* the test that decides between the marginal and the insufficient result
marginalEnough(withTreatment, withoutTreatment) ==
    Len(withTreatment) >= 2 /\ Len(withoutTreatment) >= 2

\* (a bug) the marginal result without its confounded flag
marginalResultUnflagged(treatmentName, withTreatment, withoutTreatment) ==
    LET withMean == mean(NumSeq(withTreatment))
        withoutMean == mean(NumSeq(withoutTreatment))
    IN  [name |-> treatmentName,
         effect |-> Sub(withMean, withoutMean),
         percentEffect |-> percentageChange(withoutMean, withMean),
         withMean |-> withMean,
         withoutMean |-> withoutMean,
         withN |-> Len(withTreatment),
         withoutN |-> Len(withoutTreatment),
         method |-> "marginal"]

\* the result pushed by the marginal comparison
marginalResult(treatmentName, withTreatment, withoutTreatment) ==
    LET withMean == mean(NumSeq(withTreatment))
        withoutMean == mean(NumSeq(withoutTreatment))
    IN  [name |-> treatmentName,
         effect |-> Sub(withMean, withoutMean),
         percentEffect |-> percentageChange(withoutMean, withMean),
         withMean |-> withMean,
         withoutMean |-> withoutMean,
         withN |-> Len(withTreatment),
         withoutN |-> Len(withoutTreatment),
         method |-> "marginal",
         confounded |-> TRUE]

\* (a bug) an insufficient result that carries an effect of 0
insufficientResultZero(treatmentName, withTreatment, withoutTreatment) ==
    [name |-> treatmentName,
     effect |-> Num(0),
     percentEffect |-> Num(0),
     insufficient |-> TRUE,
     withN |-> Len(withTreatment),
     withoutN |-> Len(withoutTreatment)]

\* the result pushed when the marginal partitions are too small
insufficientResult(treatmentName, withTreatment, withoutTreatment) ==
    [name |-> treatmentName,
     effect |-> Null,
     percentEffect |-> Null,
     insufficient |-> TRUE,
     withN |-> Len(withTreatment),
     withoutN |-> Len(withoutTreatment)]

\* r is the result pushed when the marginal partitions are too small
IsInsufficientResult(r) == "insufficient" \in DOMAIN r

\* the body of treatmentNames.forEach: the result pushed for one treatment,
\* before the properties of its t-test are added
treatmentResult(gs, names, treatmentName) ==
    LET pairs == pairwiseEffects(gs, names, treatmentName)
        withTreatment == marginalData(gs, treatmentName, TRUE)
        withoutTreatment == marginalData(gs, treatmentName, FALSE)
    IN  IF Len(pairs) > 0 THEN pairwiseResult(treatmentName, pairs)
        ELSE IF marginalEnough(withTreatment, withoutTreatment)
             THEN marginalResult(treatmentName, withTreatment, withoutTreatment)
             ELSE insufficientResult(treatmentName, withTreatment, withoutTreatment)

\* the treatmentNames.forEach loop: results.treatments
treatmentResults(gs, names) ==
    [k \in DOMAIN names |-> treatmentResult(gs, names, names[k])]

\* analyzeMultiVariate(groups, treatmentNames): the returned results object,
\* before the properties of the t-tests are added to its treatment results
analyzeMultiVariate(gs, names) ==
    LET infos == [i \in DOMAIN gs |-> groupInfo(gs[i], names)]
        allData == Flatten([i \in DOMAIN gs |-> gs[i].data])
        baselineGroup == baselineIndex(gs)
    IN  [groups |-> infos,
         treatments |-> treatmentResults(gs, names),
         baseline |-> IF baselineGroup # 0 THEN infos[baselineGroup] ELSE Null,
         overallMean |-> mean(NumSeq(allData))]

\* (a bug) a treatment counted as significant up to the p-value of a 'Low'
\* interpretation
treatmentSignificantLoose(pValue) == Lt(pValue, Frac(1, 10))

\* isSignificant: tTest.pValue < 0.05
treatmentSignificant(pValue) == Lt(pValue, Frac(5, 100))

\* the properties of a treatment result that come from its t-test
testProperties(tTest) ==
    [pValue |-> tTest.pValue,
     isSignificant |-> treatmentSignificant(tTest.pValue),
     interpretation |-> interpretPValue(tTest.pValue)]

\* the object literal with the properties of r and of t
withProperties(r, t) ==
    [f \in DOMAIN r \cup DOMAIN t |-> IF f \in DOMAIN t THEN t[f] ELSE r[f]]

\* the two samples of the t-test of a treatment: allWithoutData and
\* allWithData of the pairs, or the marginal partitions when there is no pair
testSamples(pairs, withTreatment, withoutTreatment) ==
    IF Len(pairs) > 0
    THEN [without |-> NumSeq(allWithoutData(pairs)), with |-> NumSeq(allWithData(pairs))]
    ELSE [without |-> NumSeq(withoutTreatment), with |-> NumSeq(withTreatment)]

\* this.welchTTest(allWithoutData, allWithData) or
\* this.welchTTest(withoutTreatment, withTreatment)
testOf(samples, cf) == welchTTest(samples.without, samples.with, cf)

\* the result pushed for one treatment, with the properties of its t-test
\* unless it is an insufficient result; cf is the value of the continued
\* fraction of the test
testedResult(gs, names, treatmentName, cf) ==
    IF IsInsufficientResult(treatmentResult(gs, names, treatmentName))
    THEN treatmentResult(gs, names, treatmentName)
    ELSE withProperties(treatmentResult(gs, names, treatmentName),
                        testProperties(testOf(testSamples(pairwiseEffects(gs, names, treatmentName),
                                                          marginalData(gs, treatmentName, TRUE),
                                                          marginalData(gs, treatmentName, FALSE)),
                                              cf)))

\* the results objects analyzeMultiVariate(groups, treatmentNames) can
\* return: one value of the continued fraction for each treatment's test
analyzeMultiVariateOutcomes(gs, names) ==
    {[analyzeMultiVariate(gs, names) EXCEPT
         !.treatments = [k \in DOMAIN names |-> testedResult(gs, names, names[k], cfs[k])]] :
        cfs \in [DOMAIN names -> ContinuedFractionValues]}

(* Arguments of analyzeMultiVariate *)

\* the data arrays of a group: <<0>>, <<0, 1>>, ... up to MaxData values, so
\* that groups differ in size and in mean (0, 1/2, ...); the form never
\* passes a group without data
Samples == {[i \in 1..n |-> i - 1] : n \in 1..MaxData}

\* the treatments mappings of a group
TreatmentMaps == [Keys -> BOOLEAN]

\* the lists of treatment names: with <<"A">> the key "B" of the groups'
\* mappings is a key that is not a treatment of the call
TreatmentNameLists == {<<"A">>, <<"A", "B">>}

\* the value of the variable mvResults before a call
NoResults == [groups |-> <<>>, treatments |-> <<>>, baseline |-> Null,
              overallMean |-> Num(0)]

InitMV ==
    /\ pc = "ready"
    /\ \E n \in 0..MaxGroups :
         \E tm \in [1..n -> TreatmentMaps], d \in [1..n -> Samples] :
            groups = [i \in 1..n |-> [name |-> i, treatments |-> tm[i], data |-> d[i]]]
    /\ treatmentNames \in TreatmentNameLists
    /\ mvResults = NoResults
    /\ data = <<>>
    /\ fits = <<>>
    /\ xValues = <<>>
    /\ yValues = <<>>
    /\ regression = NoRegression
    /\ NoStatsCall

\* a call Stats.analyzeMultiVariate(groups, treatmentNames)
AnalyzeMultiVariate ==
    /\ pc = "ready"
    /\ mvResults' \in analyzeMultiVariateOutcomes(groups, treatmentNames)
    /\ pc' = "done"
    /\ UNCHANGED <<groups, treatmentNames, data, fits, xValues, yValues, regression>>
    /\ UNCHANGED statsVars

NextMV == AnalyzeMultiVariate

SpecMV == InitMV /\ [][NextMV]_vars

(* linearRegression *)

\* arr[i], undefined (NaN in arithmetic) beyond the end of arr
at(arr, i) == IF i \in DOMAIN arr THEN arr[i] ELSE NaN

\* Math.max(0, rSquared)
floorAtZero(r) == MathMax(Num(0), r)

\* linearRegression(xValues, yValues): {slope, intercept, rSquared}
linearRegression(xs, ys) ==
    LET n == Len(xs)
        sumX == Sum(xs)
        sumY == Sum(ys)
        sumXY == Sum([i \in DOMAIN xs |-> Mul(xs[i], at(ys, i))])
        sumX2 == Sum([i \in DOMAIN xs |-> Mul(xs[i], xs[i])])
        slope == Div(Sub(Mul(Num(n), sumXY), Mul(sumX, sumY)),
                     Sub(Mul(Num(n), sumX2), Mul(sumX, sumX)))
        intercept == Div(Sub(sumY, Mul(slope, sumX)), Num(n))
        yMean == Div(sumY, Num(n))
        ssTotal == Sum([i \in DOMAIN ys |->
                           Mul(Sub(ys[i], yMean), Sub(ys[i], yMean))])
        predicted(i) == Add(Mul(slope, at(xs, i)), intercept)
        ssResidual == Sum([i \in DOMAIN ys |->
                              Mul(Sub(ys[i], predicted(i)), Sub(ys[i], predicted(i)))])
        rSquared == IF Eq(ssTotal, Num(0)) THEN Num(0)
                    ELSE Sub(Num(1), Div(ssResidual, ssTotal))
    IN  IF n < 2 THEN [slope |-> Num(0), intercept |-> Num(0), rSquared |-> Num(0)]
        ELSE [slope |-> slope, intercept |-> intercept,
              rSquared |-> floorAtZero(rSquared)]

\* the arrays of a direct call: xValues and yValues of the same length
InitRegression ==
    /\ pc = "ready"
    /\ \E n \in 0..MaxPoints :
          /\ xValues \in [1..n -> {Num(v) : v \in 0..MaxX}]
          /\ yValues \in [1..n -> {Num(v) : v \in 0..MaxY}]
    /\ regression = NoRegression
    /\ NoStatsCall
    /\ groups = <<>>
    /\ treatmentNames = <<>>
    /\ mvResults = NoResults
    /\ data = <<>>
    /\ fits = <<>>

\* a call Stats.linearRegression(xValues, yValues)
LinearRegression ==
    /\ pc = "ready"
    /\ regression' = linearRegression(xValues, yValues)
    /\ pc' = "done"
    /\ UNCHANGED <<groups, treatmentNames, mvResults, data, fits, xValues, yValues>>
    /\ UNCHANGED statsVars

NextRegression == LinearRegression

SpecRegression == InitRegression /\ [][NextRegression]_vars

\* C10: for xs, ys of equal length >= 2, rSquared is a number in [0, 1]
\* (never NaN, never negative) and it is 0 when all ys are identical, also
\* when all xs are identical
C10_RSquaredInUnitInterval ==
    (pc = "done" /\ Len(xValues) >= 2) =>
        /\ ~IsNaN(regression.rSquared)
        /\ Le(Num(0), regression.rSquared)
        /\ Le(regression.rSquared, Num(1))
        /\ (\A i, j \in DOMAIN yValues : yValues[i] = yValues[j])
              => regression.rSquared = Num(0)

(* The transforms of the complexity classes *)

\* Math.log(n) for an integer n: to one decimal for n = 1..8, to two decimals
\* at 30 and 31; -Infinity at 0 and NaN below 0
MathLog(n) ==
    IF n < 0 THEN NaN
    ELSE IF n = 0 THEN NegInf
    ELSE IF n <= 8 THEN Frac(<<0, 7, 11, 14, 16, 18, 19, 21>>[n], 10)
    ELSE IF n = 30 THEN Frac(340, 100)
    ELSE Frac(343, 100)

\* complexityClasses[c].transform(n) for an integer n
transform(c, n) ==
    CASE c = "O(1)" -> Num(1)
      [] c = "O(log n)" -> MathLog(n)
      [] c = "O(n)" -> Num(n)
      [] c = "O(n log n)" -> Mul(Num(n), MathLog(n))
      [] c = "O(n^2)" -> Num(n * n)
      [] c = "O(n^3)" -> Num(n * n * n)
      [] c = "O(2^n)" -> Num(2 ^ n)

(* fitComplexity, fitAllComplexities *)

\* the object fitComplexity returns for its locals transformedN and reg
fitFrom(c, transformedN, reg) ==
    IF \E i \in DOMAIN transformedN : ~IsFinite(transformedN[i])
    THEN [rSquared |-> Num(-1), coefficient |-> Num(0), constant |-> Num(0),
          invalid |-> TRUE]
    ELSE [rSquared |-> reg.rSquared,
          coefficient |-> reg.slope,
          constant |-> reg.intercept,
          complexityClass |-> c]

\* const reg = this.linearRegression(transformedN, times)
fitOfTransformed(c, transformedN, times) ==
    fitFrom(c, transformedN, linearRegression(transformedN, times))

\* fitComplexity(data, complexityClass)
fitComplexity(obs, c) ==
    fitOfTransformed(c, [i \in DOMAIN obs |-> transform(c, obs[i].n)],
                     [i \in DOMAIN obs |-> Num(obs[i].time)])

\* Math.max(...data.map(d => d.n)): -Infinity for no data
RECURSIVE maxNFrom(_, _)
maxNFrom(obs, i) ==
    IF i > Len(obs) THEN NegInf
    ELSE MathMax(Num(obs[i].n), maxNFrom(obs, i + 1))

\* the largest n for which the exponential class is fitted
ExponentialLimit == 30

\* the exponential class is attempted only below the limit
classNamesStrict(obs) ==
    IF Lt(maxNFrom(obs, 1), Num(ExponentialLimit)) THEN Catalog
    ELSE SubSeq(Catalog, 1, 6)

\* classNames after the conditional push of the exponential class
classNames(obs) ==
    IF Le(maxNFrom(obs, 1), Num(ExponentialLimit)) THEN Catalog
    ELSE SubSeq(Catalog, 1, 6)

\* the object pushed to results for a fit that is not invalid
fitEntry(fit, c) ==
    [rSquared |-> fit.rSquared,
     coefficient |-> fit.coefficient,
     constant |-> fit.constant,
     complexityClass |-> fit.complexityClass,
     name |-> c,
     label |-> complexityClasses[c].label,
     color |-> complexityClasses[c].color]

\* the entries pushed for the class names kept
fitEntries(obs, kept) ==
    [k \in DOMAIN kept |-> fitEntry(fitComplexity(obs, kept[k]), kept[k])]

\* results before the sort: the fits that are not invalid, in classNames order
unsortedFits(obs) ==
    LET valid(c) == "invalid" \notin DOMAIN fitComplexity(obs, c)
    IN  fitEntries(obs, SelectSeq(classNames(obs), valid))

\* the comparator (a, b) => b.rSquared - a.rSquared as Array.prototype.sort
\* reads it: negative, zero or positive, and +0 for a NaN difference
compareFits(a, b) ==
    LET v == Sub(b.rSquared, a.rSquared)
    IN  IF IsNaN(v) THEN 0 ELSE Sign(v[1])

\* the comparator is a consistent comparator for the elements of arr
consistentComparator(arr) ==
    \A i, j, k \in DOMAIN arr :
        /\ (compareFits(arr[i], arr[j]) = 0 /\ compareFits(arr[j], arr[k]) = 0)
              => compareFits(arr[i], arr[k]) = 0
        /\ (compareFits(arr[i], arr[j]) < 0 /\ compareFits(arr[j], arr[k]) < 0)
              => compareFits(arr[i], arr[k]) < 0
        /\ (compareFits(arr[i], arr[j]) > 0 /\ compareFits(arr[j], arr[k]) > 0)
              => compareFits(arr[i], arr[k]) > 0

\* x inserted into the sorted array arr behind every element that does not
\* have to follow it
RECURSIVE insertSorted(_, _)
insertSorted(arr, x) ==
    IF arr = <<>> THEN <<x>>
    ELSE IF compareFits(Head(arr), x) <= 0
         THEN <<Head(arr)>> \o insertSorted(Tail(arr), x)
         ELSE <<x>> \o arr

\* the stable sort of arr under the comparator
RECURSIVE stableSort(_)
stableSort(arr) ==
    IF arr = <<>> THEN <<>>
    ELSE insertSorted(stableSort(SubSeq(arr, 1, Len(arr) - 1)), arr[Len(arr)])

\* all orders of the elements of arr
RECURSIVE permutations(_)
permutations(arr) ==
    IF arr = <<>> THEN {<<>>}
    ELSE UNION {{<<arr[i]>> \o q :
                    q \in permutations(SubSeq(arr, 1, i - 1) \o SubSeq(arr, i + 1, Len(arr)))} :
                i \in DOMAIN arr}

\* results.sort(...): the stable sorted order under a consistent comparator;
\* under an inconsistent one the order is implementation-defined
sortOutcomes(arr) ==
    IF consistentComparator(arr) THEN {stableSort(arr)} ELSE permutations(arr)

\* results[0].isBestFit = true
markBestFit(arr) ==
    IF Len(arr) > 0
    THEN [arr EXCEPT ![1] = [f \in DOMAIN arr[1] \cup {"isBestFit"} |->
                                 IF f = "isBestFit" THEN TRUE ELSE arr[1][f]]]
    ELSE arr

\* the arrays that fitAllComplexities(data) can return
fitAllComplexities(obs) ==
    {markBestFit(sorted) : sorted \in sortOutcomes(unsortedFits(obs))}

\* the observations: n > 0 and time >= 0
Observations == [n : 1..MaxN, time : 0..MaxTime]

\* the observations at the limit of the exponential class and just above it
LimitObservations == [n : {ExponentialLimit, ExponentialLimit + 1}, time : 0..MaxTime]

\* observation lists that reach the limit: one observation at or above the
\* limit, or an observation above the limit before or after a small one
LimitLists ==
    {<<o>> : o \in LimitObservations}
    \cup {<<o, s>> : o \in {l \in LimitObservations : l.n > ExponentialLimit},
                     s \in Observations}
    \cup {<<s, o>> : o \in {l \in LimitObservations : l.n > ExponentialLimit},
                     s \in Observations}

\* observations of time 0, for which every fit has rSquared 0
FlatObservations == [n : 1..MaxN, time : {0}]

\* the lists that reach the limit, and the lists of observations of time 0
InitLimit ==
    /\ pc = "ready"
    /\ data \in SeqsOf(FlatObservations, 0, MaxObs) \cup LimitLists
    /\ fits = <<>>
    /\ groups = <<>>
    /\ treatmentNames = <<>>
    /\ mvResults = NoResults
    /\ xValues = <<>>
    /\ yValues = <<>>
    /\ regression = NoRegression
    /\ NoStatsCall

InitFit ==
    /\ pc = "ready"
    /\ data \in SeqsOf(Observations, 0, MaxObs)
    /\ fits = <<>>
    /\ groups = <<>>
    /\ treatmentNames = <<>>
    /\ mvResults = NoResults
    /\ xValues = <<>>
    /\ yValues = <<>>
    /\ regression = NoRegression
    /\ NoStatsCall

\* a call Stats.fitAllComplexities(data)
FitAllComplexities ==
    /\ pc = "ready"
    /\ fits' \in fitAllComplexities(data)
    /\ pc' = "done"
    /\ UNCHANGED <<groups, treatmentNames, mvResults, data, xValues, yValues, regression>>
    /\ UNCHANGED statsVars

NextFit == FitAllComplexities

SpecFit == InitFit /\ [][NextFit]_vars

SpecLimit == InitLimit /\ [][NextFit]_vars

(* generatePredictions, analyzeComplexity *)

\* predictions without the clamp at 0
generatePredictionsUnclamped(fit, nValues) ==
    [i \in DOMAIN nValues |->
        Add(Mul(fit.coefficient, transform(fit.complexityClass, nValues[i])),
            fit.constant)]

\* generatePredictions(fit, nValues)
generatePredictions(fit, nValues) ==
    [i \in DOMAIN nValues |->
        MathMax(Num(0), Add(Mul(fit.coefficient, transform(fit.complexityClass, nValues[i])),
                            fit.constant))]

\* x inserted into the array arr, ascending in n, behind the elements of the
\* same n
RECURSIVE insertByN(_, _)
insertByN(arr, x) ==
    IF arr = <<>> THEN <<x>>
    ELSE IF Head(arr).n <= x.n THEN <<Head(arr)>> \o insertByN(Tail(arr), x)
    ELSE <<x>> \o arr

\* obs sorted with (a, b) => a.n - b.n
RECURSIVE sortByN(_)
sortByN(obs) ==
    IF obs = <<>> THEN <<>>
    ELSE insertByN(sortByN(SubSeq(obs, 1, Len(obs) - 1)), obs[Len(obs)])

\* data.sort(...) on data itself: the caller's array is sorted too
sortDataInPlace(obs) == [sorted |-> sortByN(obs), original |-> sortByN(obs)]

\* [...data].sort(...): the sorted copy, and the caller's array after it
sortDataCopy(obs) == [sorted |-> sortByN(obs), original |-> obs]

\* fits.find(f => f.isBestFit) || fits[0]; Null for undefined
bestFitOf(fs) ==
    IF \E i \in DOMAIN fs : "isBestFit" \in DOMAIN fs[i] /\ fs[i].isBestFit
    THEN fs[CHOOSE i \in DOMAIN fs :
                /\ "isBestFit" \in DOMAIN fs[i] /\ fs[i].isBestFit
                /\ \A j \in 1..(i - 1) : ~("isBestFit" \in DOMAIN fs[j] /\ fs[j].isBestFit)]
    ELSE IF Len(fs) > 0 THEN fs[1]
    ELSE Null

\* the confidence for the best fit
confidenceOf(bestFit) ==
    IF bestFit = Null \/ Lt(bestFit.rSquared, Frac(7, 10))
    THEN [level |-> "Low",
          description |-> "Poor fit - data may not follow standard complexity classes"]
    ELSE IF Lt(bestFit.rSquared, Frac(9, 10))
    THEN [level |-> "Moderate",
          description |-> "Reasonable fit - some variance unexplained"]
    ELSE IF Lt(bestFit.rSquared, Frac(98, 100))
    THEN [level |-> "High",
          description |-> "Good fit - data matches complexity class well"]
    ELSE [level |-> "Very High",
          description |-> "Excellent fit - data closely matches complexity class"]

\* the object that analyzeComplexity returns when fitAllComplexities
\* returned fs for sortedData
resultWith(sortedData, fs, bestFit, nValues) ==
    [data |-> sortedData,
     fits |-> fs,
     bestFit |-> bestFit,
     predictions |-> IF bestFit = Null THEN <<>>
                     ELSE generatePredictions(bestFit, nValues),
     confidence |-> confidenceOf(bestFit)]

\* sortedData.map(d => d.n)
nValuesOf(sortedData) == [i \in DOMAIN sortedData |-> sortedData[i].n]

complexityResult(sortedData, fs) ==
    resultWith(sortedData, fs, bestFitOf(fs), nValuesOf(sortedData))

\* the objects that analyzeComplexity returns for sortedData
resultsFor(sortedData) ==
    {complexityResult(sortedData, fs) : fs \in fitAllComplexities(sortedData)}

\* the objects that analyzeComplexity(data) can return
analyzeComplexity(obs) == resultsFor(sortDataCopy(obs).sorted)

\* a call Stats.analyzeComplexity(data)
AnalyzeComplexity ==
    /\ pc = "ready"
    /\ complexity' \in analyzeComplexity(data)
    /\ data' = sortDataCopy(data).original
    /\ pc' = "done"
    /\ UNCHANGED <<groups, treatmentNames, mvResults, fits, xValues, yValues, regression>>
    /\ UNCHANGED <<beforeData, afterData, percent, op, result, betaVars, sessionVars,
                   pageVars>>

NextComplexity ==
    \/ FitAllComplexities
    \/ AnalyzeComplexity

SpecComplexity == InitFit /\ [][NextComplexity]_vars

(* The sample data of the time complexity form *)

\* the series of loadTCSampleData, n doubling and time quadrupling from one
\* observation to the next, with n in units of 100 and time in units of 10
\* and cut to SampleLen observations (the sums of the regression over the
\* cubes of 100..3200 are beyond the integers of the model)
sampleData == [i \in 1..SampleLen |-> [n |-> 2 ^ (i - 1), time |-> 4 ^ (i - 1)]]

InitSample ==
    /\ pc = "ready"
    /\ data = sampleData
    /\ fits = <<>>
    /\ groups = <<>>
    /\ treatmentNames = <<>>
    /\ mvResults = NoResults
    /\ xValues = <<>>
    /\ yValues = <<>>
    /\ regression = NoRegression
    /\ NoStatsCall

SpecSample == InitSample /\ [][NextComplexity]_vars

(* The 2x2 design: four groups with the treatment vectors 00, 10, 01, 11 *)

\* the treatments mapping with the given values of "A" and "B"
Vector(a, b) == [k \in Keys |-> IF k = "A" THEN a ELSE b]

FactorialVectors ==
    <<Vector(FALSE, FALSE), Vector(TRUE, FALSE), Vector(FALSE, TRUE), Vector(TRUE, TRUE)>>

\* the orders in which the four groups can be listed
Orders == {o \in [1..4 -> 1..4] : \A i, j \in 1..4 : o[i] = o[j] => i = j}

InitFactorial ==
    /\ pc = "ready"
    /\ \E o \in Orders, d \in [1..4 -> Samples] :
          groups = [i \in 1..4 |->
                       [name |-> i, treatments |-> FactorialVectors[o[i]], data |-> d[i]]]
    /\ treatmentNames = <<"A", "B">>
    /\ mvResults = NoResults
    /\ data = <<>>
    /\ fits = <<>>
    /\ xValues = <<>>
    /\ yValues = <<>>
    /\ regression = NoRegression
    /\ NoStatsCall

SpecFactorial == InitFactorial /\ [][NextMV]_vars

(* Calls of the sample operations *)

\* the samples: arrays of up to MaxSample values 0..MaxSampleValue, in any order
SampleArrays == {NumSeq(v) : v \in SeqsOf(0..MaxSampleValue, 0, MaxSample)}

\* the percentiles that quartiles asks for, and the median's
Percents == {25, 50, 75}

InitStats ==
    /\ pc = "ready"
    /\ beforeData \in SampleArrays
    /\ afterData \in SampleArrays
    /\ percent = 0
    /\ op = ""
    /\ result = Null
    /\ complexity = Null
    /\ NoBetaCall
    /\ NoSession
    /\ NoPage
    /\ groups = <<>>
    /\ treatmentNames = <<>>
    /\ mvResults = NoResults
    /\ data = <<>>
    /\ fits = <<>>
    /\ xValues = <<>>
    /\ yValues = <<>>
    /\ regression = NoRegression

\* what a call of a sample operation leaves alone
StatsFrame ==
    UNCHANGED <<groups, treatmentNames, mvResults, data, fits, xValues, yValues,
                regression, complexity, betaVars, sessionVars, pageVars>>

\* a call Stats.median(beforeData)
Median ==
    /\ pc = "ready"
    /\ op' = "median"
    /\ result' = median(beforeData)
    /\ beforeData' = arrayAfterMedian(beforeData)
    /\ pc' = "done"
    /\ UNCHANGED <<afterData, percent>>
    /\ StatsFrame

\* a call Stats.percentile(beforeData, p)
Percentile ==
    /\ pc = "ready"
    /\ \E p \in Percents :
          /\ percent' = p
          /\ result' = percentile(beforeData, p)
    /\ op' = "percentile"
    /\ beforeData' = arrayAfterPercentile(beforeData)
    /\ pc' = "done"
    /\ UNCHANGED afterData
    /\ StatsFrame

\* a call Stats.quartiles(beforeData)
Quartiles ==
    /\ pc = "ready"
    /\ op' = "quartiles"
    /\ result' = quartiles(beforeData)
    /\ beforeData' = arrayAfterQuartiles(beforeData)
    /\ pc' = "done"
    /\ UNCHANGED <<afterData, percent>>
    /\ StatsFrame

\* a call Stats.describeSample(beforeData)
DescribeSample ==
    /\ pc = "ready"
    /\ op' = "describeSample"
    /\ result' = describeSample(beforeData)
    /\ beforeData' = arrayAfterDescribe(beforeData)
    /\ pc' = "done"
    /\ UNCHANGED <<afterData, percent>>
    /\ StatsFrame

\* a call Stats.cohensD(beforeData, afterData)
CohensD ==
    /\ pc = "ready"
    /\ op' = "cohensD"
    /\ result' = cohensD(beforeData, afterData)
    /\ pc' = "done"
    /\ UNCHANGED <<beforeData, afterData, percent>>
    /\ StatsFrame

\* a call Stats.welchTTest(beforeData, afterData)
WelchTTest ==
    /\ pc = "ready"
    /\ op' = "welchTTest"
    /\ \E cf \in ContinuedFractionValues :
          result' = welchTTest(beforeData, afterData, cf)
    /\ pc' = "done"
    /\ UNCHANGED <<beforeData, afterData, percent>>
    /\ StatsFrame

\* a call Stats.analyze(beforeData, afterData)
Analyze ==
    /\ pc = "ready"
    /\ op' = "analyze"
    /\ \E cf \in ContinuedFractionValues :
          result' = analyze(beforeData, afterData, cf)
    /\ beforeData' = arrayAfterDescribe(beforeData)
    /\ afterData' = arrayAfterDescribe(afterData)
    /\ pc' = "done"
    /\ UNCHANGED percent
    /\ StatsFrame

NextStats ==
    \/ Median
    \/ Percentile
    \/ Quartiles
    \/ DescribeSample
    \/ CohensD
    \/ WelchTTest
    \/ Analyze

SpecStats == InitStats /\ [][NextStats]_vars

(* Calls of the sample operations on floating-point samples *)

\* the integers 0..MaxOrderValue that the floating-point format holds
OrderValues == {Num(v) : v \in {w \in 0..MaxOrderValue : Fl(Num(w)) = Num(w)}}

InitOrder ==
    /\ pc = "ready"
    /\ beforeData \in SeqsOf(OrderValues, 0, MaxOrderLen)
    /\ afterData = <<>>
    /\ percent = 0
    /\ op = ""
    /\ result = Null
    /\ complexity = Null
    /\ NoBetaCall
    /\ NoSession
    /\ NoPage
    /\ groups = <<>>
    /\ treatmentNames = <<>>
    /\ mvResults = NoResults
    /\ data = <<>>
    /\ fits = <<>>
    /\ xValues = <<>>
    /\ yValues = <<>>
    /\ regression = NoRegression

NextOrder ==
    \/ Median
    \/ Percentile
    \/ Quartiles
    \/ DescribeSample

SpecOrder == InitOrder /\ [][NextOrder]_vars

(* The recursion and the continued-fraction loop of incompleteBeta *)

\* the last index of for (let m = 0; m <= 200; m++)
IterationCap == 200

\* the parameters a and b of the calls
BetaParameters == {Frac(1, 8), Frac(1, 2), Frac(5, 8)}

\* the arguments x of the calls: the floating-point numbers nearest to the
\* multiples of 1 / XGrid in [0, 1]
BetaArguments == {Fl(Frac(k, XGrid)) : k \in 0..XGrid}

\* the values of exp(log(x) * a + log(1 - x) * b - lnBeta) / a, which the
\* model does not compute
FrontValues == {Frac(1, 4)}

\* the values of delta = c * d of one iteration, which the model does not
\* compute: 1 is a converged step, -1 and NaN are steps that are not
DeltaValues == {Num(1), Num(-1), NaN}

\* (a + 1) / (a + b + 2), every operation rounded
switchPoint(a, b) ==
    Fl(Div(Fl(Add(a, Num(1))), Fl(Add(Fl(Add(a, b)), Num(2)))))

\* x > (a + 1) / (a + b + 2)
takesComplement(fr) == Lt(switchPoint(fr.a, fr.b), fr.x)

\* the arguments of this.incompleteBeta(b, a, 1 - x)
complementFrame(fr) == [a |-> fr.b, b |-> fr.a, x |-> Fl(Sub(Num(1), fr.x))]

\* the loop condition with one more iteration
withinCapLoose(i) == i <= IterationCap + 1

\* m <= 200
withinCap(i) == i <= IterationCap

\* Math.abs(delta - 1) < 1e-10, both sides scaled by 1e5
converged(delta) ==
    Lt(Mul(MathAbs(Sub(delta, Num(1))), Num(100000)), Frac(1, 100000))

\* the steps of one iteration: its delta, and whether it ends the loop
IterationSteps == {[delta |-> d, break |-> converged(d)] : d \in DeltaValues}

\* the value the outermost call returns when the call at depth k returns v:
\* every call above returns 1 - the value of the call below it
RECURSIVE returned(_, _)
returned(k, v) == IF k = 0 THEN v ELSE returned(k - 1, Fl(Sub(Num(1), v)))

\* the call at the top of the stack
topFrame == frames[Len(frames)]

InitBeta ==
    /\ pc = "ready"
    /\ \E a \in BetaParameters, b \in BetaParameters, x \in BetaArguments :
          frames = <<[a |-> a, b |-> b, x |-> x]>>
    /\ mIndex = 0
    /\ fProduct = Num(1)
    /\ front = Null
    /\ NoSession
    /\ NoPage
    /\ beforeData = <<>>
    /\ afterData = <<>>
    /\ percent = 0
    /\ op = ""
    /\ result = Null
    /\ complexity = Null
    /\ groups = <<>>
    /\ treatmentNames = <<>>
    /\ mvResults = NoResults
    /\ data = <<>>
    /\ fits = <<>>
    /\ xValues = <<>>
    /\ yValues = <<>>
    /\ regression = NoRegression

\* what a step of incompleteBeta leaves alone
BetaFrame ==
    UNCHANGED <<groups, treatmentNames, mvResults, data, fits, xValues, yValues,
                regression, beforeData, afterData, percent, complexity, sessionVars,
                pageVars>>

\* if (x === 0) return 0; if (x === 1) return 1;
BetaBoundary ==
    /\ pc = "ready"
    /\ frames # <<>>
    /\ Eq(topFrame.x, Num(0)) \/ Eq(topFrame.x, Num(1))
    /\ result' = returned(Len(frames) - 1, topFrame.x)
    /\ op' = "incompleteBeta"
    /\ pc' = "done"
    /\ UNCHANGED betaVars
    /\ BetaFrame

\* return 1 - this.incompleteBeta(b, a, 1 - x): the nested call is entered
BetaComplement ==
    /\ pc = "ready"
    /\ frames # <<>>
    /\ ~Eq(topFrame.x, Num(0))
    /\ ~Eq(topFrame.x, Num(1))
    /\ takesComplement(topFrame)
    /\ Len(frames) <= MaxDepth
    /\ frames' = Append(frames, complementFrame(topFrame))
    /\ UNCHANGED <<pc, op, result, mIndex, fProduct, front>>
    /\ BetaFrame

\* the nested call for which the call stack has no room: RangeError
BetaStackOverflow ==
    /\ pc = "ready"
    /\ frames # <<>>
    /\ ~Eq(topFrame.x, Num(0))
    /\ ~Eq(topFrame.x, Num(1))
    /\ takesComplement(topFrame)
    /\ Len(frames) > MaxDepth
    /\ pc' = "overflow"
    /\ op' = "incompleteBeta"
    /\ UNCHANGED <<result, betaVars>>
    /\ BetaFrame

\* const front = ...; let f = 1, c = 1, d = 0; m = 0
BetaEnterLoop ==
    /\ pc = "ready"
    /\ frames # <<>>
    /\ ~Eq(topFrame.x, Num(0))
    /\ ~Eq(topFrame.x, Num(1))
    /\ ~takesComplement(topFrame)
    /\ front' \in FrontValues
    /\ fProduct' = Num(1)
    /\ mIndex' = 0
    /\ pc' = "loop"
    /\ UNCHANGED <<frames, op, result>>
    /\ BetaFrame

\* one iteration of the loop: f *= delta, then break or m++
BetaIterate ==
    /\ pc = "loop"
    /\ withinCap(mIndex)
    /\ \E step \in IterationSteps :
          /\ fProduct' = Mul(fProduct, step.delta)
          /\ IF step.break
             THEN pc' = "exit" /\ mIndex' = mIndex
             ELSE pc' = "loop" /\ mIndex' = mIndex + 1
    /\ UNCHANGED <<frames, front, op, result>>
    /\ BetaFrame

\* the loop condition m <= 200 is false
BetaCap ==
    /\ pc = "loop"
    /\ ~withinCap(mIndex)
    /\ pc' = "exit"
    /\ UNCHANGED <<result, op, betaVars>>
    /\ BetaFrame

\* return front * (f - 1), and the returns of the calls above
BetaReturn ==
    /\ pc = "exit"
    /\ result' = returned(Len(frames) - 1, Mul(front, Sub(fProduct, Num(1))))
    /\ op' = "incompleteBeta"
    /\ pc' = "done"
    /\ UNCHANGED betaVars
    /\ BetaFrame

NextBeta ==
    \/ BetaBoundary
    \/ BetaComplement
    \/ BetaStackOverflow
    \/ BetaEnterLoop
    \/ BetaIterate
    \/ BetaCap
    \/ BetaReturn

SpecBeta == InitBeta /\ [][NextBeta]_vars

\* a loop that was entered runs on: the next iteration, or the exit at the cap
SpecBetaLive == SpecBeta /\ WF_vars(BetaIterate) /\ WF_vars(BetaCap)

(* Calls of every operation of the engine *)

InitFlat ==
    /\ pc = "ready"
    /\ data \in SeqsOf(FlatObservations, 0, MaxObs)
    /\ fits = <<>>
    /\ groups = <<>>
    /\ treatmentNames = <<>>
    /\ mvResults = NoResults
    /\ xValues = <<>>
    /\ yValues = <<>>
    /\ regression = NoRegression
    /\ NoStatsCall

\* the group lists of at most MaxEngineGroups groups
InitFewGroups ==
    /\ InitMV
    /\ Len(groups) <= MaxEngineGroups

InitEngine ==
    \/ InitStats
    \/ InitFlat
    \/ InitFewGroups

NextEngine ==
    \/ NextStats
    \/ NextComplexity
    \/ NextMV

SpecEngine == InitEngine /\ [][NextEngine]_vars

(* Sessions: calls of the public operations one after another *)

\* the object pushed to results, whose label and color are read from the
\* Stats object as it is at the time of the call
entryIn(cat, entry) ==
    [entry EXCEPT !.label = cat[entry.name].label, !.color = cat[entry.name].color]

\* the array fitAllComplexities returns when this.complexityClasses is cat
fitsIn(cat, fs) == [i \in DOMAIN fs |-> entryIn(cat, fs[i])]

\* the object analyzeComplexity returns when this.complexityClasses is cat
complexityIn(cat, r) ==
    [r EXCEPT !.fits = fitsIn(cat, r.fits), !.bestFit = entryIn(cat, r.bestFit)]

\* a catalog whose entry of the best fit carries the mark
catalogAfterShared(cat, fs) ==
    IF fs = <<>> THEN cat
    ELSE [cat EXCEPT ![fs[1].name] =
             [f \in DOMAIN cat[fs[1].name] \cup {"isBestFit"} |->
                 IF f = "isBestFit" THEN TRUE ELSE cat[fs[1].name][f]]]

\* this.complexityClasses after a run that returned fs: the objects pushed
\* to results are new objects ({...fit, name, label, color}), so the mark
\* results[0].isBestFit = true is written to none of the catalog's entries
catalogAfter(cat, fs) == cat

\* the place of x in the sorted array arr that a binary search between the
\* places lo and hi finds
RECURSIVE binaryPlace(_, _, _, _)
binaryPlace(arr, x, lo, hi) ==
    IF lo >= hi THEN lo
    ELSE IF compareFits(x, arr[(lo + hi) \div 2 + 1]) < 0
         THEN binaryPlace(arr, x, lo, (lo + hi) \div 2)
         ELSE binaryPlace(arr, x, (lo + hi) \div 2 + 1, hi)

\* x inserted into arr at the place p
insertAt(arr, x, p) == SubSeq(arr, 1, p) \o <<x>> \o SubSeq(arr, p + 1, Len(arr))

\* the binary insertion sort of arr
RECURSIVE sortBinary(_)
sortBinary(arr) ==
    IF arr = <<>> THEN <<>>
    ELSE insertAt(sortBinary(SubSeq(arr, 1, Len(arr) - 1)), arr[Len(arr)],
                  binaryPlace(sortBinary(SubSeq(arr, 1, Len(arr) - 1)), arr[Len(arr)],
                              0, Len(arr) - 1))

\* results.sort(...) as the implementation b carries it out
sortIn(b, arr) == IF b = "linear" THEN stableSort(arr) ELSE sortBinary(arr)

\* the array fitAllComplexities(obs) returns on the implementation b
fitAllComplexitiesIn(b, obs) == markBestFit(sortIn(b, unsortedFits(obs)))

\* the object analyzeComplexity(obs) returns on the implementation b
analyzeComplexityIn(b, obs) ==
    complexityResult(sortDataCopy(obs).sorted, fitAllComplexitiesIn(b, sortDataCopy(obs).sorted))

\* the observation lists of a session: sizes 1..MaxObs in this order
SessionData == {obs \in SeqsOf(Observations, MaxObs, MaxObs) : \A i \in DOMAIN obs : obs[i].n = i}

\* the samples of a session: MaxSample values in ascending order
SessionSamples == {s \in SampleArrays : Len(s) = MaxSample /\ s = sortAscending(s)}

\* the group lists of a session: two groups of two values, the first one
\* without a treatment
SessionGroups ==
    {[i \in 1..2 |-> [name |-> i, treatments |-> tm[i], data |-> <<i - 1, i>>]] :
        tm \in {t \in [1..2 -> TreatmentMaps] : \A k \in Keys : ~t[1][k]}}

\* the calls of a session with the values they return: fitAllComplexities
\* and analyzeComplexity on each implementation, analyze, analyzeMultiVariate
SessionFits ==
    {[build |-> b, data |-> obs, returned |-> fitAllComplexitiesIn(b, obs)] :
        b \in Builds, obs \in SessionData}

SessionComplexities ==
    {[build |-> b, data |-> obs, returned |-> analyzeComplexityIn(b, obs)] :
        b \in Builds, obs \in SessionData}

SessionAnalyses ==
    {[before |-> b, after |-> a, returned |-> analyze(b, a, cf)] :
        b \in SessionSamples, a \in SessionSamples, cf \in ContinuedFractionValues}

\* the treatment name lists of a session: one treatment
SessionNames == {names \in TreatmentNameLists : Len(names) = 1}

SessionMultiVariates ==
    UNION {{[groups |-> gs, names |-> names, returned |-> r] :
               r \in analyzeMultiVariateOutcomes(gs, names)} :
           gs \in SessionGroups, names \in SessionNames}

InitSession ==
    /\ pc = "ready"
    /\ data = <<>>
    /\ fits = <<>>
    /\ groups = <<>>
    /\ treatmentNames = <<>>
    /\ mvResults = NoResults
    /\ xValues = <<>>
    /\ yValues = <<>>
    /\ regression = NoRegression
    /\ beforeData = <<>>
    /\ afterData = <<>>
    /\ percent = 0
    /\ op = ""
    /\ result = Null
    /\ complexity = Null
    /\ NoBetaCall
    /\ catalog = complexityClasses
    /\ calls = 0
    /\ earlier = <<>>
    /\ build \in Builds
    /\ NoPage

\* the caller keeps the result of the latest call only, and of
\* fitAllComplexities the arrays of the latest two runs
ForgetSamples == beforeData' = <<>> /\ afterData' = <<>> /\ result' = Null

ForgetGroups == groups' = <<>> /\ treatmentNames' = <<>> /\ mvResults' = NoResults

ForgetComplexity == complexity' = Null

\* one more call, of the operation o
SessionCall(o) ==
    /\ calls < MaxCalls
    /\ calls' = calls + 1
    /\ op' = o
    /\ pc' = "done"
    /\ UNCHANGED <<xValues, yValues, regression, percent, betaVars, build, pageVars>>

\* a call Stats.fitAllComplexities(obs); the caller still holds the array
\* of the run before
SessionFitAllComplexities ==
    /\ SessionCall("fitAllComplexities")
    /\ \E call \in SessionFits :
          /\ call.build = build
          /\ data' = call.data
          /\ fits' = fitsIn(catalog, call.returned)
          /\ catalog' = catalogAfter(catalog, call.returned)
    /\ earlier' = fits
    /\ ForgetComplexity
    /\ ForgetSamples
    /\ ForgetGroups

\* a call Stats.analyzeComplexity(obs)
SessionAnalyzeComplexity ==
    /\ SessionCall("analyzeComplexity")
    /\ \E call \in SessionComplexities :
          /\ call.build = build
          /\ data' = sortDataCopy(call.data).original
          /\ complexity' = complexityIn(catalog, call.returned)
          /\ catalog' = catalogAfter(catalog, call.returned.fits)
    /\ ForgetSamples
    /\ ForgetGroups
    /\ UNCHANGED <<fits, earlier>>

\* a call Stats.analyze(b, a)
SessionAnalyze ==
    /\ SessionCall("analyze")
    /\ \E call \in SessionAnalyses :
          /\ result' = call.returned
          /\ beforeData' = arrayAfterDescribe(call.before)
          /\ afterData' = arrayAfterDescribe(call.after)
    /\ ForgetComplexity
    /\ ForgetGroups
    /\ UNCHANGED <<catalog, data, fits, earlier>>

\* a call Stats.analyzeMultiVariate(gs, names)
SessionAnalyzeMultiVariate ==
    /\ SessionCall("analyzeMultiVariate")
    /\ \E call \in SessionMultiVariates :
          /\ groups' = call.groups
          /\ treatmentNames' = call.names
          /\ mvResults' = call.returned
    /\ ForgetComplexity
    /\ ForgetSamples
    /\ UNCHANGED <<catalog, data, fits, earlier>>

NextSession ==
    \/ SessionFitAllComplexities
    \/ SessionAnalyzeComplexity
    \/ SessionAnalyze
    \/ SessionAnalyzeMultiVariate

SpecSession == InitSession /\ [][NextSession]_vars

(* Calls of analyze and of analyzeMultiVariate *)

InitSignificance ==
    \/ InitStats
    \/ InitMV

NextSignificance ==
    \/ Analyze
    \/ AnalyzeMultiVariate

SpecSignificance == InitSignificance /\ [][NextSignificance]_vars

(* The page: the handlers of app.js that call the engine *)

\* the sizes of the sample data of the "Before/After" tool and of the
\* complexity tool
BeforeSampleSize == 25
AfterSampleSize == 25
ComplexitySampleSize == 6

\* a number of parsed values as the model counts it: no further than most
counted(n, most) == IF n > most THEN most ELSE n

\* least of a non-empty sequence of numbers
RECURSIVE leastOf(_)
leastOf(ns) ==
    IF Len(ns) = 1 THEN ns[1]
    ELSE IF ns[1] <= leastOf(Tail(ns)) THEN ns[1] ELSE leastOf(Tail(ns))

\* (a bug) one value for each sample would do
enoughValuesOne(n) == n >= 1

\* beforeData.length >= 2, afterData.length >= 2
enoughValues(n) == n >= 2

\* groups.length >= 2
enoughGroups(gs) == Len(gs) >= 2

\* data.length >= 3
enoughObservations(n) == n >= 3

\* getMVGroupsData(): the cards whose textarea holds at least one value
getMVGroupsData(cards) == SelectSeq(cards, LAMBDA n : n > 0)

\* the calls Stats.analyze(beforeData, afterData),
\* Stats.analyzeMultiVariate(groups, treatmentNames) and
\* Stats.analyzeComplexity(data), as the sizes of their arguments
analyzeCall(before, after) ==
    [op |-> "analyze", samples |-> 2, least |-> leastOf(<<before, after>>)]

analyzeMultiVariateCall(gs) ==
    [op |-> "analyzeMultiVariate", samples |-> Len(gs), least |-> leastOf(gs)]

analyzeComplexityCall(rows) ==
    [op |-> "analyzeComplexity", samples |-> 1, least |-> rows]

\* the state of the page when the handlers are installed; whether the
\* result sections are hidden by their style attribute, and how many
\* treatment names the page starts with, is written in the page's markup
InitPage ==
    /\ pc = "ready"
    /\ data = <<>>
    /\ fits = <<>>
    /\ groups = <<>>
    /\ treatmentNames = <<>>
    /\ mvResults = NoResults
    /\ xValues = <<>>
    /\ yValues = <<>>
    /\ regression = NoRegression
    /\ beforeData = <<>>
    /\ afterData = <<>>
    /\ percent = 0
    /\ op = ""
    /\ result = Null
    /\ complexity = Null
    /\ NoBetaCall
    /\ NoSession
    /\ baBefore = 0
    /\ baAfter = 0
    /\ baShown \in BOOLEAN
    /\ mvNames \in 0..MaxNames
    /\ mvCards = <<>>
    /\ mvShown \in BOOLEAN
    /\ tcRows = 0
    /\ tcShown \in BOOLEAN
    /\ resizeTimeout = FALSE
    /\ lastCall = <<>>

\* what no handler of the page changes
PageFrame ==
    UNCHANGED <<pc, groups, treatmentNames, mvResults, data, fits, xValues, yValues,
                regression, beforeData, afterData, percent, op, result, complexity,
                betaVars, sessionVars>>

BAFrame == UNCHANGED <<mvNames, mvCards, mvShown, tcRows, tcShown, resizeTimeout>>

MVFrame == UNCHANGED <<baBefore, baAfter, baShown, tcRows, tcShown, resizeTimeout>>

TCFrame == UNCHANGED <<baBefore, baAfter, baShown, mvNames, mvCards, mvShown, resizeTimeout>>

\* the user edits the "Before" or the "After" input (updateBAQuickStats
\* calls no operation but mean and stdDev)
EditBefore ==
    /\ \E n \in 0..MaxValues : baBefore' = n
    /\ UNCHANGED <<baAfter, baShown, lastCall>>
    /\ BAFrame
    /\ PageFrame

EditAfter ==
    /\ \E n \in 0..MaxValues : baAfter' = n
    /\ UNCHANGED <<baBefore, baShown, lastCall>>
    /\ BAFrame
    /\ PageFrame

\* runBAAnalysis: a click on Analyze of the "Before/After" tool
RunBAAnalysis ==
    /\ IF enoughValues(baBefore) /\ enoughValues(baAfter)
       THEN /\ lastCall' = <<analyzeCall(baBefore, baAfter)>>
            /\ baShown' = TRUE
       ELSE UNCHANGED <<lastCall, baShown>>
    /\ UNCHANGED <<baBefore, baAfter>>
    /\ BAFrame
    /\ PageFrame

\* clearBAAll
ClearBAAll ==
    /\ baBefore' = 0
    /\ baAfter' = 0
    /\ baShown' = FALSE
    /\ UNCHANGED lastCall
    /\ BAFrame
    /\ PageFrame

\* loadBASampleData
LoadBASampleData ==
    /\ baBefore' = counted(BeforeSampleSize, MaxValues)
    /\ baAfter' = counted(AfterSampleSize, MaxValues)
    /\ UNCHANGED <<baShown, lastCall>>
    /\ BAFrame
    /\ PageFrame

\* the user edits, adds or removes a treatment name
EditTreatments ==
    /\ \E n \in 0..MaxNames : mvNames' = n
    /\ UNCHANGED <<mvCards, mvShown, lastCall>>
    /\ MVFrame
    /\ PageFrame

\* addMVGroup(): a click on Add Group appends a card without data
AddMVGroup ==
    /\ Len(mvCards) < MaxCards
    /\ mvCards' = Append(mvCards, 0)
    /\ UNCHANGED <<mvNames, mvShown, lastCall>>
    /\ MVFrame
    /\ PageFrame

\* a click on the remove button of a card
RemoveMVGroup ==
    /\ \E i \in DOMAIN mvCards :
          mvCards' = SubSeq(mvCards, 1, i - 1) \o SubSeq(mvCards, i + 1, Len(mvCards))
    /\ UNCHANGED <<mvNames, mvShown, lastCall>>
    /\ MVFrame
    /\ PageFrame

\* the user edits the textarea of a card
EditMVGroup ==
    /\ \E i \in DOMAIN mvCards, n \in 0..MaxValues : mvCards' = [mvCards EXCEPT ![i] = n]
    /\ UNCHANGED <<mvNames, mvShown, lastCall>>
    /\ MVFrame
    /\ PageFrame

\* runMVAnalysis: a click on Analyze of the multi-variate tool
RunMVAnalysis ==
    /\ IF mvNames # 0 /\ enoughGroups(getMVGroupsData(mvCards))
       THEN /\ lastCall' = <<analyzeMultiVariateCall(getMVGroupsData(mvCards))>>
            /\ mvShown' = TRUE
       ELSE UNCHANGED <<lastCall, mvShown>>
    /\ UNCHANGED <<mvNames, mvCards>>
    /\ MVFrame
    /\ PageFrame

\* clearMVAll: two treatments, no groups; loadMVSampleData leaves the same
\* names and cards and does not hide the results (the four groups its
\* timeout adds are more cards than MaxCards)
ClearMVAll ==
    /\ mvNames' = counted(2, MaxNames)
    /\ mvCards' = <<>>
    /\ mvShown' = FALSE
    /\ UNCHANGED lastCall
    /\ MVFrame
    /\ PageFrame

LoadMVSampleData ==
    /\ mvNames' = counted(2, MaxNames)
    /\ mvCards' = <<>>
    /\ UNCHANGED <<mvShown, lastCall>>
    /\ MVFrame
    /\ PageFrame

\* the user edits the input of observations
EditObservations ==
    /\ \E n \in 0..MaxRows : tcRows' = n
    /\ UNCHANGED <<tcShown, lastCall>>
    /\ TCFrame
    /\ PageFrame

\* runTCAnalysis: a click on Analyze of the complexity tool
RunTCAnalysis ==
    /\ IF enoughObservations(tcRows)
       THEN /\ lastCall' = <<analyzeComplexityCall(tcRows)>>
            /\ tcShown' = TRUE
       ELSE UNCHANGED <<lastCall, tcShown>>
    /\ UNCHANGED tcRows
    /\ TCFrame
    /\ PageFrame

\* clearTCAll
ClearTCAll ==
    /\ tcRows' = 0
    /\ tcShown' = FALSE
    /\ UNCHANGED lastCall
    /\ TCFrame
    /\ PageFrame

\* loadTCSampleData
LoadTCSampleData ==
    /\ tcRows' = counted(ComplexitySampleSize, MaxRows)
    /\ UNCHANGED <<tcShown, lastCall>>
    /\ TCFrame
    /\ PageFrame

\* the resize handler: clearTimeout(resizeTimeout) and a new timeout
Resize ==
    /\ resizeTimeout' = TRUE
    /\ UNCHANGED <<baBefore, baAfter, baShown, mvNames, mvCards, mvShown, tcRows, tcShown,
                   lastCall>>
    /\ PageFrame

\* the calls of the timeout of the resize handler, one tool after another
resizeCalls(before, after, ba, cards, mv, rows, tc) ==
    (IF ba /\ enoughValues(before) /\ enoughValues(after)
     THEN <<analyzeCall(before, after)>> ELSE <<>>)
    \o (IF mv /\ enoughGroups(getMVGroupsData(cards))
        THEN <<analyzeMultiVariateCall(getMVGroupsData(cards))>> ELSE <<>>)
    \o (IF tc /\ enoughObservations(rows)
        THEN <<analyzeComplexityCall(rows)>> ELSE <<>>)

\* the timeout of the resize handler fires, 250 ms after the latest resize
ResizeTimeout ==
    /\ resizeTimeout
    /\ resizeTimeout' = FALSE
    /\ lastCall' = IF resizeCalls(baBefore, baAfter, baShown, mvCards, mvShown, tcRows, tcShown) = <<>>
                   THEN lastCall
                   ELSE resizeCalls(baBefore, baAfter, baShown, mvCards, mvShown, tcRows, tcShown)
    /\ UNCHANGED <<baBefore, baAfter, baShown, mvNames, mvCards, mvShown, tcRows, tcShown>>
    /\ PageFrame

NextPage ==
    \/ EditBefore
    \/ EditAfter
    \/ RunBAAnalysis
    \/ ClearBAAll
    \/ LoadBASampleData
    \/ EditTreatments
    \/ AddMVGroup
    \/ RemoveMVGroup
    \/ EditMVGroup
    \/ RunMVAnalysis
    \/ ClearMVAll
    \/ LoadMVSampleData
    \/ EditObservations
    \/ RunTCAnalysis
    \/ ClearTCAll
    \/ LoadTCSampleData
    \/ Resize
    \/ ResizeTimeout

SpecPage == InitPage /\ [][NextPage]_vars

(* Properties of analyzeMultiVariate *)

\* the returned treatment results, and reads of properties that a result
\* object may lack (undefined)
Results == mvResults.treatments
Method(r) == IF "method" \in DOMAIN r THEN r.method ELSE "undefined"
IsTrue(r, f) == f \in DOMAIN r /\ r[f] = TRUE
IsFalse(r, f) == f \in DOMAIN r /\ r[f] = FALSE
Lacks(r, f) == f \notin DOMAIN r

\* the ordered pairs of distinct groups (without, with) that differ in
\* treatment T and agree on every other name of treatmentNames
MatchedPairs(T) ==
    {p \in (DOMAIN groups) \X (DOMAIN groups) :
        /\ p[1] # p[2]
        /\ groups[p[1]].treatments[T] = FALSE
        /\ groups[p[2]].treatments[T] = TRUE
        /\ \A k \in DOMAIN treatmentNames :
              \/ treatmentNames[k] = T
              \/ groups[p[1]].treatments[treatmentNames[k]]
                    = groups[p[2]].treatments[treatmentNames[k]]}

\* the number of data values of the groups that have (b = TRUE) or lack T
RECURSIVE PooledFrom(_, _, _)
PooledFrom(T, b, i) ==
    IF i > Len(groups) THEN 0
    ELSE (IF groups[i].treatments[T] = b THEN Len(groups[i].data) ELSE 0)
            + PooledFrom(T, b, i + 1)

PooledN(T, b) == PooledFrom(T, b, 1)

\* C1: a treatment's result is pairwise exactly when a matched pair of
\* groups exists for it, its pairCount is the number of matched pairs, and
\* the marginal or insufficient result appears only when there is none
C1_PairwiseIffMatchedPair ==
    pc = "done" =>
        \A k \in DOMAIN treatmentNames :
            LET T == treatmentNames[k]
                r == Results[k]
                P == MatchedPairs(T)
            IN  /\ r.name = T
                /\ (Method(r) = "pairwise") <=> (P # {})
                /\ (P # {}) => r.pairCount = Cardinality(P)
                /\ (Method(r) = "marginal" \/ IsTrue(r, "insufficient")) => P = {}
                /\ (P = {}) => (Method(r) = "marginal" \/ IsTrue(r, "insufficient"))

\* a call in which one treatment has two matched pairs while another one,
\* whose groups disagree on it nowhere, has none
C1_Witness ==
    /\ pc = "done"
    /\ Len(treatmentNames) = 2
    /\ Method(Results[1]) = "pairwise"
    /\ Results[1].pairCount = 2
    /\ Method(Results[2]) # "pairwise"

HasEffect(r) ==
    /\ r.effect # Null
    /\ IsFinite(r.effect)
    /\ r.percentEffect # Null
    /\ Method(r) \in {"pairwise", "marginal"}

IsInsufficient(r) ==
    /\ IsTrue(r, "insufficient")
    /\ r.effect = Null
    /\ r.percentEffect = Null

\* C3: every treatment result has either a computed numeric effect with a
\* method, or insufficient = true with null effects: never both, never neither
C3_EffectXorInsufficient ==
    pc = "done" =>
        \A k \in DOMAIN Results :
            /\ HasEffect(Results[k]) \/ IsInsufficient(Results[k])
            /\ ~(HasEffect(Results[k]) /\ IsInsufficient(Results[k]))
            /\ HasEffect(Results[k]) => Lacks(Results[k], "insufficient")
            /\ IsInsufficient(Results[k]) => Lacks(Results[k], "method")

\* a call that returns a computed effect for one treatment and an
\* insufficient result for the other
C3_Witness ==
    /\ pc = "done"
    /\ \E k \in DOMAIN Results : HasEffect(Results[k])
    /\ \E k \in DOMAIN Results : IsInsufficient(Results[k])

\* C4: without a matched pair the result is marginal exactly when both
\* pooled partitions hold at least 2 data values, and insufficient otherwise
C4_MarginalThreshold ==
    pc = "done" =>
        \A k \in DOMAIN treatmentNames :
            LET T == treatmentNames[k]
                r == Results[k]
                enough == PooledN(T, TRUE) >= 2 /\ PooledN(T, FALSE) >= 2
            IN  MatchedPairs(T) = {} =>
                    /\ (Method(r) = "marginal") <=> enough
                    /\ (IsTrue(r, "insufficient")) <=> ~enough
                    /\ r.withN = PooledN(T, TRUE)
                    /\ r.withoutN = PooledN(T, FALSE)

\* a treatment without a matched pair whose partitions hold 1 and 3 values
\* (the 3 values spread over two groups) and which is reported insufficient
C4_Witness ==
    /\ pc = "done"
    /\ \E k \in DOMAIN treatmentNames :
          /\ MatchedPairs(treatmentNames[k]) = {}
          /\ PooledN(treatmentNames[k], TRUE) = 1
          /\ PooledN(treatmentNames[k], FALSE) = 3
          /\ IsTrue(Results[k], "insufficient")

\* the groups list the four vectors 00, 10, 01, 11 once each
IsFactorial ==
    /\ Len(groups) = 4
    /\ \A v \in 1..4 : \E i \in 1..4 : groups[i].treatments = FactorialVectors[v]

GroupMean(i) ==
    IF Len(groups[i].data) = 0 THEN Num(0)
    ELSE Div(Sum(NumSeq(groups[i].data)), Num(Len(groups[i].data)))

\* the effect and the percent effect of the matched pair p = <<without, with>>
PairEffect(p) == Sub(GroupMean(p[2]), GroupMean(p[1]))

PairPercent(p) ==
    IF GroupMean(p[1]) = Num(0) THEN Num(0)
    ELSE Div(Mul(Num(100), PairEffect(p)), GroupMean(p[1]))

\* the sums of the pairs' effects and percent effects over a set of pairs
RECURSIVE SumEffects(_)
SumEffects(P) ==
    IF P = {} THEN Num(0)
    ELSE LET p == CHOOSE q \in P : TRUE
         IN  Add(PairEffect(p), SumEffects(P \ {p}))

RECURSIVE SumPercents(_)
SumPercents(P) ==
    IF P = {} THEN Num(0)
    ELSE LET p == CHOOSE q \in P : TRUE
         IN  Add(PairPercent(p), SumPercents(P \ {p}))

\* C6: with k >= 1 matched pairs the effect is the sum of the pairs'
\* (with-mean - without-mean) divided by k, whatever the groups' sizes, and
\* percentEffect is the sum of the pairs' percentage changes divided by k
C6_UnweightedPairMean ==
    pc = "done" =>
        \A k \in DOMAIN treatmentNames :
            LET P == MatchedPairs(treatmentNames[k])
            IN  P # {} =>
                  /\ Results[k].effect = Div(SumEffects(P), Num(Cardinality(P)))
                  /\ Results[k].percentEffect = Div(SumPercents(P), Num(Cardinality(P)))

\* two matched pairs whose groups differ in size, so that the reported
\* effect is not the difference of the pooled means
C6_Witness ==
    /\ pc = "done"
    /\ \E k \in DOMAIN treatmentNames :
          /\ Cardinality(MatchedPairs(treatmentNames[k])) = 2
          /\ Results[k].effect # Sub(Results[k].withMean, Results[k].withoutMean)
          /\ Results[k].effect # Num(0)

\* the number of true values in group i's treatments mapping
ActiveCount(gs, i) ==
    Cardinality({t \in DOMAIN gs[i].treatments : gs[i].treatments[t] = TRUE})

\* the first group, in input order, with the fewest active treatments
FirstMinimal(gs) ==
    CHOOSE i \in DOMAIN gs :
        /\ \A j \in DOMAIN gs : ActiveCount(gs, i) <= ActiveCount(gs, j)
        /\ \A j \in DOMAIN gs : j < i => ActiveCount(gs, i) < ActiveCount(gs, j)

\* the group list with the values of group i's keys that are not treatment
\* names of the call inverted: the same call as far as the named treatments
\* go, with another count of active treatments in group i
OtherKeysFlipped(i) ==
    LET named == {treatmentNames[k] : k \in DOMAIN treatmentNames}
    IN  [groups EXCEPT ![i].treatments =
            [t \in Keys |-> IF t \in named THEN @[t] ELSE ~@[t]]]

\* a treatment result without the properties of its t-test
Untested(r) ==
    [f \in DOMAIN r \ {"pValue", "isSignificant", "interpretation"} |-> r[f]]

\* the two samples of the t-test of treatment t for the group list gs
TestSamplesOf(gs, t) ==
    testSamples(pairwiseEffects(gs, treatmentNames, t), marginalData(gs, t, TRUE),
                marginalData(gs, t, FALSE))

\* C7: the baseline is the first group with the fewest active treatments,
\* it is null only for an empty group list, and a group list that makes
\* another group the baseline yields the same treatment results (the same
\* results before the t-tests and the same samples for the t-tests)
C7_Baseline ==
    pc = "done" =>
        /\ (mvResults.baseline = Null) <=> (groups = <<>>)
        /\ groups # <<>> => mvResults.baseline = mvResults.groups[FirstMinimal(groups)]
        /\ \A i \in DOMAIN groups :
              /\ treatmentResults(OtherKeysFlipped(i), treatmentNames)
                    = [k \in DOMAIN Results |-> Untested(Results[k])]
              /\ \A k \in DOMAIN treatmentNames :
                    TestSamplesOf(OtherKeysFlipped(i), treatmentNames[k])
                       = TestSamplesOf(groups, treatmentNames[k])

\* three groups of which the second and the third tie for the fewest
\* active treatments, the second is the baseline, and inverting a key that
\* is not a named treatment makes the first group the baseline
C7_Witness ==
    /\ pc = "done"
    /\ Len(groups) = 3
    /\ ActiveCount(groups, 2) = ActiveCount(groups, 3)
    /\ ActiveCount(groups, 2) < ActiveCount(groups, 1)
    /\ mvResults.baseline = mvResults.groups[2]
    /\ \E i \in DOMAIN groups :
          analyzeMultiVariate(OtherKeysFlipped(i), treatmentNames).baseline.name = 1

(* Properties of fitAllComplexities *)

\* the returned fits that are marked isBestFit
Marked == {i \in DOMAIN fits : IsTrue(fits[i], "isBestFit")}

\* the position of a class in the catalog
CatalogIndex(c) == CHOOSE i \in DOMAIN Catalog : Catalog[i] = c

\* the returned fits whose rSquared no other returned rSquared exceeds
TiedForMaximum ==
    {i \in DOMAIN fits :
        /\ ~IsNaN(fits[i].rSquared)
        /\ \A j \in DOMAIN fits :
              IsNaN(fits[j].rSquared) \/ Le(fits[j].rSquared, fits[i].rSquared)}

\* C8: at most one returned fit is marked isBestFit, its rSquared is at
\* least the rSquared of every other returned fit, and the list is in
\* descending rSquared order
C8_BestFitIsMaximum ==
    pc = "done" =>
        /\ Cardinality(Marked) <= 1
        /\ \A m \in Marked : \A j \in DOMAIN fits :
              j # m => Ge(fits[m].rSquared, fits[j].rSquared)
        /\ \A i, j \in DOMAIN fits :
              i < j => Ge(fits[i].rSquared, fits[j].rSquared)

\* C9: fits with the same rSquared appear in catalog order, and the marked
\* fit is the first-listed class among the fits tied for the maximum
C9_TiesInCatalogOrder ==
    pc = "done" =>
        /\ \A i, j \in DOMAIN fits :
              (i < j /\ Eq(fits[i].rSquared, fits[j].rSquared))
                  => CatalogIndex(fits[i].name) < CatalogIndex(fits[j].name)
        /\ TiedForMaximum # {} =>
              \E m \in Marked :
                  /\ m \in TiedForMaximum
                  /\ \A j \in TiedForMaximum :
                        CatalogIndex(fits[m].name) <= CatalogIndex(fits[j].name)

(* C11: the exponential class *)

\* the names of the fits returned
FitNames == {fits[i].name : i \in DOMAIN fits}

\* C11: O(2^n) is among the fits returned by fitAllComplexities exactly when
\* no observation has n above 30, and the six other classes are always
\* among them, each class once.
C11_ExponentialIffSmall ==
    pc = "done" /\ mvResults = NoResults /\ regression = NoRegression =>
        /\ ("O(2^n)" \in FitNames) <=> (\A i \in DOMAIN data : data[i].n <= 30)
        /\ \A k \in 1..6 : Catalog[k] \in FitNames
        /\ \A i, j \in DOMAIN fits : fits[i].name = fits[j].name => i = j

\* a list of two observations whose second n is 31: six fits, no exponential
C11_Witness ==
    /\ pc = "done"
    /\ Len(data) = 2
    /\ data[1].n < 30
    /\ data[2].n = 31
    /\ Len(fits) = 6
    /\ "O(2^n)" \notin FitNames

\* a single observation with n = 30: the exponential class is fitted
C11_WitnessAtLimit ==
    /\ pc = "done"
    /\ Len(data) = 1
    /\ data[1].n = 30
    /\ Len(fits) = 7
    /\ "O(2^n)" \in FitNames

(* Properties of the sample operations *)

Called(o) == pc = "done" /\ op = o

\* sqrt(var1/n1 + var2/n2) of the two samples
StandardErrorOfDifference ==
    MathSqrt(Add(Div(variance(beforeData), Num(Len(beforeData))),
                 Div(variance(afterData), Num(Len(afterData)))))

IsConstant(arr) == \A i, j \in DOMAIN arr : arr[i] = arr[j]

InUnitInterval(v) == ~IsNaN(v) /\ Le(Num(0), v) /\ Le(v, Num(1))

\* C13: when the standard error sqrt(var1/n1 + var2/n2) is exactly 0,
\* welchTTest returns exactly {t: 0, df: n1 + n2 - 2, pValue: 1}; no NaN or
\* infinity of a division by zero reaches the result.
C13_ZeroStandardError ==
    Called("welchTTest") /\ Eq(StandardErrorOfDifference, Num(0)) =>
        result = [t |-> Num(0),
                  df |-> Num(Len(beforeData) + Len(afterData) - 2),
                  pValue |-> Num(1)]

\* two constant samples of different means and sizes
C13_Witness ==
    /\ Called("welchTTest")
    /\ Eq(StandardErrorOfDifference, Num(0))
    /\ Len(beforeData) = 2
    /\ Len(afterData) = 1
    /\ mean(beforeData) # mean(afterData)
    /\ result.df = Num(1)

\* C14: for every pair of samples, the empty and the single-element ones
\* included, welchTTest returns a pValue that is a number in [0, 1].
C14_PValueInUnitInterval ==
    Called("welchTTest") => InUnitInterval(result.pValue)

\* C15: for a non-empty sample s, welchTTest(s, s) has t = 0 and pValue = 1.
C15_SameSample ==
    Called("welchTTest") /\ beforeData = afterData /\ Len(beforeData) > 0 =>
        /\ result.t = Num(0)
        /\ result.pValue = Num(1)

\* a sample that is not constant compared with itself: the p-value comes
\* from incompleteBeta at x = 1
C15_Witness ==
    /\ Called("welchTTest")
    /\ beforeData = afterData
    /\ ~IsConstant(beforeData)
    /\ ~Eq(StandardErrorOfDifference, Num(0))
    /\ result.pValue = Num(1)
    /\ IsFinite(result.df)

\* the pooled standard deviation of cohensD
PooledStd ==
    MathSqrt(Div(Add(Mul(Num(Len(beforeData) - 1), variance(beforeData)),
                     Mul(Num(Len(afterData) - 1), variance(afterData))),
                 Num(Len(beforeData) + Len(afterData) - 2)))

\* C16: cohensD returns a finite number for every pair of samples, and 0
\* when the pooled standard deviation is 0.
C16_CohensDFinite ==
    Called("cohensD") =>
        /\ IsFinite(result)
        /\ Eq(PooledStd, Num(0)) => result = Num(0)

\* C17: describeSample of the empty sample has n and every statistic 0, and
\* of a single-element sample has variance, stdDev and standardError 0.
C17_DegenerateSummaries ==
    Called("describeSample") =>
        /\ Len(beforeData) = 0 =>
              /\ result.n = 0
              /\ \A f \in DOMAIN result \ {"n"} : result[f] = Num(0)
        /\ Len(beforeData) = 1 =>
              /\ result.variance = Num(0)
              /\ result.stdDev = Num(0)
              /\ result.standardError = Num(0)

\* C20: analyze returns verdict 'faster' exactly when pValue < 0.05 and
\* mean(after) < mean(before), 'slower' exactly when pValue < 0.05 and
\* mean(after) >= mean(before), 'inconclusive' exactly when pValue is not
\* below 0.05; isSignificant is true exactly when pValue < 0.05.
C20_Verdict ==
    Called("analyze") =>
        LET significant == Lt(result.tTest.pValue, Frac(5, 100))
            lower == Lt(mean(afterData), mean(beforeData))
            notLower == Ge(mean(afterData), mean(beforeData))
        IN  /\ result.verdict = "faster" <=> (significant /\ lower)
            /\ result.verdict = "slower" <=> (significant /\ notLower)
            /\ result.verdict = "inconclusive" <=> ~significant
            /\ result.isSignificant <=> significant
            /\ result.verdict \in {"faster", "slower", "inconclusive"}

\* a significant slowdown
C20_Witness ==
    /\ Called("analyze")
    /\ Lt(result.tTest.pValue, Frac(5, 100))
    /\ Lt(mean(beforeData), mean(afterData))
    /\ result.verdict = "slower"

\* a significant speedup, and a p-value of exactly 0.05
C20_WitnessFaster ==
    /\ Called("analyze")
    /\ result.verdict = "faster"

C20_WitnessAtThreshold ==
    /\ Called("analyze")
    /\ result.tTest.pValue = Frac(5, 100)
    /\ result.verdict = "inconclusive"

(* C18: median and percentile 50 *)

\* the two middle order statistics of a sample of even length
LowerMiddle == sortAscending(beforeData)[Len(beforeData) \div 2]
UpperMiddle == sortAscending(beforeData)[Len(beforeData) \div 2 + 1]

C12_SampleIsQuadratic ==
    pc = "done" =>
        /\ fits # <<>> =>
              /\ fits[1].name = "O(n^2)"
              /\ Lt(Frac(999, 1000), fits[1].rSquared)
              /\ \A i \in DOMAIN fits :
                    ("isBestFit" \in DOMAIN fits[i]) => fits[i].name = "O(n^2)"
        /\ complexity # Null =>
              /\ complexity.bestFit.name = "O(n^2)"
              /\ Lt(Frac(999, 1000), complexity.bestFit.rSquared)

(* C19: the inputs of the operations *)

\* a is ascending in n
AscendingInN(a) == \A i, j \in DOMAIN a : i < j => a[i].n <= a[j].n

\* a and b hold the same elements the same number of times
SameElements(a, b) ==
    /\ Len(a) = Len(b)
    /\ \A x \in {a[i] : i \in DOMAIN a} \cup {b[i] : i \in DOMAIN b} :
          Cardinality({i \in DOMAIN a : a[i] = x}) = Cardinality({i \in DOMAIN b : b[i] = x})

\* C19: no operation changes its inputs: a call of median, percentile,
\* quartiles, describeSample or analyze leaves the samples with the same
\* elements in the same order, a call of analyzeComplexity leaves the
\* observation list in its order and returns a sorted copy as data, a call
\* of analyzeMultiVariate leaves the groups (data and treatments) and the
\* treatment names as they were.
C19_InputsUnchanged ==
    /\ [][/\ beforeData' = beforeData
           /\ afterData' = afterData
           /\ data' = data
           /\ groups' = groups
           /\ treatmentNames' = treatmentNames]_vars
    /\ [](pc = "done" /\ complexity # Null =>
              /\ AscendingInN(complexity.data)
              /\ SameElements(complexity.data, data))

\* analyzeComplexity returned for a list that is not ascending in n
C19_Witness ==
    /\ pc = "done"
    /\ complexity # Null
    /\ ~AscendingInN(data)
    /\ complexity.data # data

\* analyze returned for two samples that are not ascending
C19_WitnessAnalyze ==
    /\ Called("analyze")
    /\ sortAscending(beforeData) # beforeData
    /\ sortAscending(afterData) # afterData

(* C21: the result of analyzeComplexity *)

\* coefficient * transform(n) + constant for the fit and the i-th observation
rawPrediction(fit, obs, i) ==
    Add(Mul(fit.coefficient, transform(fit.complexityClass, obs[i].n)), fit.constant)

\* the confidence level the claim gives for rSquared r
levelFor(r) ==
    IF Lt(r, Frac(7, 10)) THEN "Low"
    ELSE IF Lt(r, Frac(9, 10)) THEN "Moderate"
    ELSE IF Lt(r, Frac(98, 100)) THEN "High"
    ELSE "Very High"

\* C21: analyzeComplexity returns the observations sorted by n ascending, as
\* bestFit the one fit that fitAllComplexities marked isBestFit, one
\* prediction per observation, each max(0, coefficient * transform(n) +
\* constant) and so never below 0, and the confidence level 'Low' for a best
\* rSquared below 0.7, 'Moderate' below 0.9, 'High' below 0.98 and
\* 'Very High' otherwise.
C21_AnalyzeComplexityResult ==
    (pc = "done" /\ complexity # Null) =>
        /\ AscendingInN(complexity.data)
        /\ SameElements(complexity.data, data)
        /\ complexity.bestFit # Null
        /\ \E i \in DOMAIN complexity.fits :
              /\ complexity.fits[i] = complexity.bestFit
              /\ "isBestFit" \in DOMAIN complexity.fits[i]
              /\ complexity.fits[i].isBestFit
              /\ \A j \in DOMAIN complexity.fits \ {i} :
                    "isBestFit" \notin DOMAIN complexity.fits[j]
        /\ Len(complexity.predictions) = Len(data)
        /\ \A i \in DOMAIN complexity.predictions :
              /\ complexity.predictions[i] =
                    MathMax(Num(0), rawPrediction(complexity.bestFit, complexity.data, i))
              /\ ~Lt(complexity.predictions[i], Num(0))
        /\ complexity.confidence.level = levelFor(complexity.bestFit.rSquared)

\* a result for observations out of order whose best fit predicts a
\* negative time, clamped to 0, with a confidence below 'Very High'
C21_Witness ==
    /\ pc = "done"
    /\ complexity # Null
    /\ ~AscendingInN(data)
    /\ Len(data) = 3
    /\ \E i \in DOMAIN complexity.predictions :
          /\ Lt(rawPrediction(complexity.bestFit, complexity.data, i), Num(0))
          /\ complexity.predictions[i] = Num(0)
    /\ complexity.confidence.level \in {"Low", "Moderate", "High"}

\* a result whose best fit has rSquared NaN: the level is 'Very High' and
\* the predictions are NaN
C21_WitnessNaN ==
    /\ pc = "done"
    /\ complexity # Null
    /\ IsNaN(complexity.bestFit.rSquared)
    /\ complexity.confidence.level = "Very High"
    /\ \E i \in DOMAIN complexity.predictions : IsNaN(complexity.predictions[i])

(* C23: the depth of the recursion of incompleteBeta *)

\* C23: a call incompleteBeta(a, b, x) with a, b > 0 and x in [0, 1] makes
\* at most one nested call: the nested call incompleteBeta(b, a, 1 - x) does
\* not take the complement branch again, so at most two calls are active
\* and the call stack is never exhausted.
C23_DepthAtMostOne ==
    /\ Len(frames) <= 2
    /\ pc # "overflow"

(* C24: the continued-fraction loop of incompleteBeta *)

\* C24: the loop always terminates: every iteration has an index m in
\* 0..200, an iteration with |c*d - 1| < 1e-10 (a step that leaves a
\* product f that is a number as it is) is the last one, every loop that
\* was entered is left after finitely many steps, and the value the call
\* returns then is front * (f - 1), also when the loop ended at the cap.
C24_LoopTerminates ==
    /\ [][BetaIterate => mIndex \in 0..IterationCap]_vars
    /\ [][(BetaIterate /\ ~IsNaN(fProduct) /\ fProduct' = fProduct)
             => (pc' = "exit" /\ mIndex' = mIndex)]_vars
    /\ [](pc = "loop" => <>(pc = "exit"))
    /\ []((pc = "done" /\ front # Null) =>
             result = returned(Len(frames) - 1, Mul(front, Sub(fProduct, Num(1)))))

\* a call that returned from a loop that ran to the cap: every index
\* 0..200 had its iteration and none of them converged
C24_Witness ==
    /\ pc = "done"
    /\ Len(frames) = 1
    /\ front # Null
    /\ mIndex = IterationCap + 1
    /\ result = Mul(front, Sub(fProduct, Num(1)))

\* a call that returned from a loop that converged before the cap
C24_WitnessEarly ==
    /\ pc = "done"
    /\ front # Null
    /\ mIndex \in 1..(IterationCap - 1)

(* C25: the complement identity of incompleteBeta *)

\* C25: for a, b > 0 every call returns, with 0 for x = 0 and 1 for x = 1;
\* for x strictly between 0 and 1 the values of incompleteBeta(a, b, x) and
\* incompleteBeta(b, a, 1 - x) add up to 1: a call that takes the
\* complement branch returns 1 - the value of its nested call, and a call
\* that evaluates the continued fraction itself (as both calls do at the
\* switch point) returns a converged value.
C25_ComplementIdentity ==
    /\ pc # "overflow"
    /\ (pc = "done" /\ Len(frames) = 1 /\ frames[1].x \in {Num(0), Num(1)})
          => result = frames[1].x
    /\ (pc = "done" /\ Len(frames) = 2 /\ ~IsNaN(result))
          => Add(result, Sub(Num(1), result)) = Num(1)
    /\ (pc = "done" /\ front # Null) => mIndex <= IterationCap

(* C22: the engine keeps no state between calls *)

\* the marked elements of a result array are at most its first
MarkedOnlyFirst(fs) == \A i \in DOMAIN fs : IsTrue(fs[i], "isBestFit") => i = 1

\* C22: after any sequence of calls of analyze, analyzeMultiVariate,
\* fitAllComplexities and analyzeComplexity the complexityClasses catalog of
\* the Stats object is what its literal defines, the result of the latest
\* call is a result the operation has for its arguments alone, whatever
\* calls preceded it, and the isBestFit mark of one fitAllComplexities run
\* shows in no other run's array: each array has the mark on its own first
\* element only and the array of the run before is left as it was returned.
C22_NoStateBetweenCalls ==
    /\ catalog = complexityClasses
    /\ op = "fitAllComplexities" => fits = fitAllComplexitiesIn(build, data)
    /\ op = "analyzeComplexity" => complexity = analyzeComplexityIn(build, data)
    /\ op = "analyze" =>
          \E cf \in ContinuedFractionValues : result = analyze(beforeData, afterData, cf)
    /\ op = "analyzeMultiVariate" =>
          mvResults \in analyzeMultiVariateOutcomes(groups, treatmentNames)
    /\ MarkedOnlyFirst(fits)
    /\ MarkedOnlyFirst(earlier)
    /\ complexity # Null => MarkedOnlyFirst(complexity.fits)
    /\ earlier # <<>> => \E call \in SessionFits : call.build = build /\ earlier = call.returned

\* the last call of a session, a fitAllComplexities run after another run
\* that ranked the classes differently
C22_Witness ==
    /\ calls = MaxCalls
    /\ op = "fitAllComplexities"
    /\ earlier # <<>>
    /\ IsTrue(earlier[1], "isBestFit")
    /\ IsTrue(fits[1], "isBestFit")
    /\ earlier[2].name # fits[2].name

(* C26: the verdict 'slower' *)

\* C26: analyze returns the verdict 'slower' only with mean(after) strictly
\* greater than mean(before); with equal means the result is never
\* significant and the verdict is 'inconclusive': two samples of at least
\* two values and equal means have t = 0 and pValue = 1, by the
\* zero-standard-error return or by the t-test of t = 0.
C26_SlowerOnlyWhenSlower ==
    Called("analyze") =>
        /\ result.verdict = "slower" =>
              /\ Lt(mean(beforeData), mean(afterData))
              /\ Lt(result.before.mean, result.after.mean)
        /\ Eq(mean(beforeData), mean(afterData)) =>
              /\ ~result.isSignificant
              /\ ~Lt(result.tTest.pValue, Frac(5, 100))
              /\ result.verdict = "inconclusive"
        /\ (Eq(mean(beforeData), mean(afterData)) /\ Len(beforeData) >= 2 /\ Len(afterData) >= 2) =>
              /\ result.tTest.t = Num(0)
              /\ result.tTest.pValue = Num(1)

\* equal means of two samples that are not constant: the t-test runs with
\* t = 0
C26_Witness ==
    /\ Called("analyze")
    /\ Eq(mean(beforeData), mean(afterData))
    /\ ~Eq(StandardErrorOfDifference, Num(0))
    /\ result.tTest.pValue = Num(1)
    /\ result.verdict = "inconclusive"

\* a verdict 'slower'
C26_WitnessSlower ==
    /\ Called("analyze")
    /\ result.verdict = "slower"
    /\ Lt(result.before.mean, result.after.mean)

(* C27: the significance flag and the interpretation of the p-value *)

SignificantLevels == {"Very High", "High", "Moderate"}

\* the flag isSignificant agrees with the interpretation of pValue
FlagAgrees(flag, interpretation, pValue) ==
    /\ flag \in BOOLEAN
    /\ flag <=> interpretation.level \in SignificantLevels
    /\ flag <=> interpretation.confidence \in {Frac(999, 10), Num(99), Num(95)}
    /\ ~flag <=> interpretation.level \in {"Low", "Insufficient"}
    /\ IsNaN(pValue) => (~flag /\ interpretation.level = "Insufficient")

\* C27: in the result of analyze and in every treatment result of
\* analyzeMultiVariate that is not insufficient, isSignificant is true
\* exactly when the interpretation of the p-value has the level 'Very High',
\* 'High' or 'Moderate' (confidence 99.9, 99 or 95) and false exactly when
\* it has the level 'Low' or 'Insufficient'; a p-value that is not a
\* number is not significant and 'Insufficient'.
C27_FlagAgreesWithInterpretation ==
    /\ Called("analyze") =>
          FlagAgrees(result.isSignificant, result.pInterpretation, result.tTest.pValue)
    /\ pc = "done" =>
          \A k \in DOMAIN Results :
              ~IsInsufficientResult(Results[k]) =>
                  FlagAgrees(Results[k].isSignificant, Results[k].interpretation,
                             Results[k].pValue)

\* a treatment result with a p-value of the level 'Low' beside one of the
\* level 'Moderate'
C27_Witness ==
    /\ pc = "done"
    /\ \E k, j \in DOMAIN Results :
          /\ ~IsInsufficientResult(Results[k])
          /\ ~IsInsufficientResult(Results[j])
          /\ Results[k].interpretation.level = "Low"
          /\ ~Results[k].isSignificant
          /\ Results[j].interpretation.level = "Moderate"
          /\ Results[j].isSignificant

\* a pairwise result whose p-value is not a number
C27_WitnessNaN ==
    /\ pc = "done"
    /\ \E k \in DOMAIN Results :
          /\ Method(Results[k]) = "pairwise"
          /\ IsNaN(Results[k].pValue)
          /\ ~Results[k].isSignificant

\* results of analyze: a p-value that is not a number, and a significant one
C27_WitnessAnalyzeNaN ==
    /\ Called("analyze")
    /\ IsNaN(result.tTest.pValue)
    /\ result.pInterpretation.level = "Insufficient"

C27_WitnessAnalyze ==
    /\ Called("analyze")
    /\ result.isSignificant
    /\ result.pInterpretation.level = "Very High"

(* C28: the pooled samples of a pairwise result *)

\* the data of the without-groups (side = 1) or with-groups (side = 2) of
\* the matched pairs P, each pair adding its group's data
RECURSIVE PairedData(_, _)
PairedData(P, side) ==
    IF P = {} THEN <<>>
    ELSE LET p == CHOOSE q \in P : TRUE
         IN  groups[p[side]].data \o PairedData(P \ {p}, side)

\* the number of data values of all groups
TotalN == Len(Flatten([i \in DOMAIN groups |-> groups[i].data]))

\* the matched pairs of T in which group i takes part on the given side
PairsOf(T, i, side) == {p \in MatchedPairs(T) : p[side] = i}

\* C28: in a pairwise result withN is the sum of the with-groups' data
\* lengths over all matched pairs and withoutN the sum of the
\* without-groups' data lengths, a group adding its data once for every
\* matched pair it takes part in; withMean, withoutMean and the p-value are
\* those of the samples pooled in this way.
C28_PooledWithMultiplicity ==
    pc = "done" =>
        \A k \in DOMAIN treatmentNames :
            Method(Results[k]) = "pairwise" =>
                LET P == MatchedPairs(treatmentNames[k])
                    with == NumSeq(PairedData(P, 2))
                    without == NumSeq(PairedData(P, 1))
                IN  /\ Results[k].withN = Len(with)
                    /\ Results[k].withoutN = Len(without)
                    /\ Results[k].withMean = mean(with)
                    /\ Results[k].withoutMean = mean(without)
                    /\ \E cf \in ContinuedFractionValues :
                          Results[k].pValue = welchTTest(without, with, cf).pValue

\* a group that is the without-group of two matched pairs: the pooled
\* samples hold more values than the groups together
C28_Witness ==
    /\ pc = "done"
    /\ \E k \in DOMAIN treatmentNames, i \in DOMAIN groups :
          /\ Method(Results[k]) = "pairwise"
          /\ Cardinality(PairsOf(treatmentNames[k], i, 1)) = 2
          /\ Results[k].withN + Results[k].withoutN > TotalN
          /\ Results[k].withoutN >= 2 * Len(groups[i].data)

(* C29: treatments that are active in every group or in none *)

ActiveInAll(T) == \A i \in DOMAIN groups : groups[i].treatments[T] = TRUE

ActiveInNone(T) == \A i \in DOMAIN groups : groups[i].treatments[T] = FALSE

\* C29: a treatment that is active in every group, or in no group, gets an
\* insufficient result without an effect estimate, whose withoutN (or
\* withN) is 0 and whose other count is the number of all data values;
\* results.treatments has one entry for each entry of treatmentNames, in
\* the same order.
C29_NoContrastIsInsufficient ==
    pc = "done" =>
        /\ Len(Results) = Len(treatmentNames)
        /\ \A k \in DOMAIN treatmentNames :
              /\ Results[k].name = treatmentNames[k]
              /\ ActiveInAll(treatmentNames[k]) =>
                    /\ IsTrue(Results[k], "insufficient")
                    /\ Results[k].effect = Null
                    /\ Results[k].percentEffect = Null
                    /\ Lacks(Results[k], "pValue")
                    /\ Results[k].withoutN = 0
                    /\ Results[k].withN = TotalN
              /\ ActiveInNone(treatmentNames[k]) =>
                    /\ IsTrue(Results[k], "insufficient")
                    /\ Results[k].effect = Null
                    /\ Results[k].percentEffect = Null
                    /\ Lacks(Results[k], "pValue")
                    /\ Results[k].withN = 0
                    /\ Results[k].withoutN = TotalN

\* the largest group list, every group of the largest size, with one
\* treatment active in every group and another one active in none
C29_Witness ==
    /\ pc = "done"
    /\ Len(groups) = MaxGroups
    /\ \A i \in DOMAIN groups : Len(groups[i].data) = MaxData
    /\ Len(treatmentNames) = 2
    /\ ActiveInAll(treatmentNames[1])
    /\ ActiveInNone(treatmentNames[2])
    /\ Results[1].withN = MaxGroups * MaxData
    /\ IsTrue(Results[2], "insufficient")

\* C30: across any sequence of input edits, Analyze clicks, Clear clicks,
\* sample loads, resizes and timeouts of the resize handler, every call of
\* analyze has a before-sample and an after-sample of at least 2 values
\* each and every call of analyzeComplexity has at least 3 observations,
\* whereas a call of analyzeMultiVariate has at least 2 groups, each of at
\* least one value
CallInBounds(c) ==
    /\ c.op = "analyze" => c.samples = 2 /\ c.least >= 2
    /\ c.op = "analyzeComplexity" => c.least >= 3
    /\ c.op = "analyzeMultiVariate" => c.samples >= 2 /\ c.least >= 1

C30_CallsHaveEnoughValues ==
    \A i \in DOMAIN lastCall : CallInBounds(lastCall[i])

\* the timeout of the resize handler has called all three operations,
\* analyzeMultiVariate with a group of a single value
C30_Witness ==
    /\ Len(lastCall) = 3
    /\ lastCall[1].op = "analyze"
    /\ lastCall[2].op = "analyzeMultiVariate"
    /\ lastCall[2].least = 1
    /\ lastCall[3].op = "analyzeComplexity"

\* a click on Analyze has called analyzeMultiVariate with a group of a
\* single value
C30_WitnessClick ==
    /\ Len(lastCall) = 1
    /\ lastCall[1].op = "analyzeMultiVariate"
    /\ lastCall[1].least = 1
    /\ mvNames # 0
    /\ ~resizeTimeout

====
